---------------------------- MODULE Spec2Model ----------------------------
(***************************************************************************)
(* Verification model of the weaviate-pt operator tools: the two backup    *)
(* tools (backup_to_blob.py, backup_restore/backup_v4.py), the REST batch  *)
(* insert helper (weaviate_client.py), the two restore tools, the         *)
(* backup/restore validation workflow (backup_restore/test_backup_restore),*)
(* the two facade services (parallel_search_api.py, fastapi_server.py) and *)
(* the load-test harnesses (the locustfiles).                              *)
(***************************************************************************)
EXTENDS Integers, Sequences, FiniteSets, TLC

(***************************************************************************)
(* Bounds of the model.                                                    *)
(***************************************************************************)
MaxObjects == 10      \* largest collection size K
MaxBatch == 2         \* largest batch_size tried
MaxCap == 3           \* largest max_objects cap tried (0 is None)
MaxFaults == 2        \* injected failures per backup run
MaxInsert == 3        \* largest batch handed to batch_insert_objects on its own
MaxResult == 4        \* longest per-item result list of a batch response
MaxFiles == 2         \* backup files of the newest backup run
MaxQueries == 2       \* query entries of one facade request
MaxRequests == 2      \* requests one facade process handles
MaxClock == 3         \* latest clock reading, in ticks of 0.002 ms
MaxLegs == 2          \* legs of a fan-out whose answers vary (the others succeed)
MaxPhrases == 2       \* phrases of the catalogue a generator goes through (30 in the code)
MaxLimits == 2        \* limits of the sweep a generator goes through (5 in the code)

(***************************************************************************)
(* Program constants.                                                      *)
(***************************************************************************)
max_parallel == 5
GcEvery == 10

None == 0             \* Python None / empty cursor; identifiers start at 1

VARIABLES
    \* ---- the backup tools and their environment
    tool,             \* "stream" (backup_to_blob.py) or "rest" (backup_v4.py)
    collection,       \* K: the collection holds the objects 1..K, in this order
    batch_size,
    max_objects,      \* None (0) or the object cap
    pc,
    blobs,            \* blob storage: set of [file, objs]
    fetch_log,        \* every fetch sent: [limit, after, ok, objs]
    faults,           \* injected failures so far
    compress_errors,  \* batches whose compression failed
    complete,         \* "Backup complete" was logged
    \* streaming backup (WeaviateBackup.backup_collection_parallel)
    total_uploaded,
    last_id,
    file_number,
    upload_tasks,     \* sequence of [file, objs]
    task_state,       \* per task: created, waiting, running, True, False
    semaphore,
    gather_log,       \* success-ratio log lines: [batch, successful, total]
    upload_errors,    \* files named by an "Upload error for <blob>" log line
    \* REST fallback backup (backup_collection)
    cursor,
    file_index,
    total_objects,
    local_files,
    batch_exceptions, \* passes of the loop ended by the except branch
    \* ---- batch_insert_objects called on its own
    bi_pc,
    bi_objects,
    bi_response,
    bi_return,
    \* ---- the restore tools, blob storage and the database they fill
    rs_variant,       \* "runaware" (backup_restore/) or "flat"
    rs_store,         \* blob name [run, n] -> content [gz, valid, records]
    rs_run_arg,       \* the backup_run_id argument (None: ask the operator)
    rs_pc,
    backup_run_id,
    backup_files,     \* the listing, in sorted-name order
    rs_i,             \* index in backup_files of the next file
    total_restored,
    rs_downloads,     \* download attempts, in order: [file, ok]
    rs_skipped,       \* names of the files skipped as empty
    rs_calls,         \* batch_insert_objects calls: [file, objects, payload, sent]
    db_exists,
    db_objs,          \* objects of the collection: [id, properties, vector]
    db_next_id,
    \* ---- the backup/restore validation workflow (test_backup_restore.py)
    fl_pc,
    fl_answer1,       \* what the operator typed at "Proceed with test?"
    fl_answer2,       \* what the operator typed at the deletion prompt
    fl_exit,          \* the process's exit status (-1 while running)
    fl_requests,      \* the requests sent to the database, in order
    fl_steps,         \* the steps executed, in order: [step, ok]
    fl_conn_configured, \* the blob connection string is not the placeholder
    fl_db0,           \* the collection before the workflow: [exists, objs]
    \* ---- the facade services (parallel_search_api.py, fastapi_server.py)
    fa_service,       \* "search_api" or "fastapi_server"
    fa_key,           \* config.WEAVIATE_API_KEY
    fa_pc,            \* down, ready, dispatch, stopped
    fa_clock,         \* time.time() since the request arrived, in ticks of 0.002 ms
    fa_client,        \* the client legs are sent through: [id, auth] or NoClient
    fa_client_log,    \* clients opened and closed: [ev, id, during]
    fa_handled,       \* requests answered so far
    fa_queries,       \* collections named by the entries of the request
    fa_api_start,
    fa_search_start,
    fa_legs,          \* per entry: [state, outcome, start, client, auth]
    fa_results,       \* what each finished leg returned (or raised)
    fa_response,      \* the response to the current request, NoResponse before
    fa_completed,     \* the legs of the current request, in the order they returned
    \* ---- the load-test harnesses (the locustfiles)
    hs_harness,       \* the locustfile
    hs_pc,            \* idle, start, answered, classified, reported
    hs_answers,       \* what the database answered to each leg: [status, errors]
    hs_facade_status, \* HTTP status of the facade's own answer (facade harnesses)
    hs_leg_ok,        \* per leg: the harness (or the facade) counted it a success
    hs_leg_reports,   \* per leg: what Locust recorded for the leg itself, or "none"
    hs_report,        \* what the harness reported for the request: none, success, failure
    hs_finished,      \* per leg: the leg has returned
    hs_events,        \* aggregate events fired: [verdict, message, pending]
    \* ---- the fixture generators (generate_*_queries.py)
    gn_generator,     \* the generator script
    gn_pc,            \* embed, write, exit
    gn_limit,         \* index in `limits` of the limit being generated
    gn_phrase,        \* index in SEARCH_QUERIES of the next phrase to embed
    gn_requests,      \* embedding requests sent to the provider: the phrases, in order
    query_embeddings, \* phrase -> vector (None: no entry)
    gn_files,         \* fixture entries written: [file, limit, phrase, search_type, vector]
    gn_exit,          \* exit status (-1 while running)
    \* ---- create_weaviate_client (weaviate_client.py)
    cl_url,           \* config.WEAVIATE_URL: [https, port_str]
    cl_use_grpc,      \* config.WEAVIATE_USE_GRPC
    cl_pc,            \* start, connected, raised
    cl_http_port,     \* http_port handed to ConnectionParams.from_params
    cl_grpc_port      \* grpc_port handed to ConnectionParams.from_params


backupVars == <<tool, collection, batch_size, max_objects, pc, blobs, fetch_log,
                faults, compress_errors, complete, total_uploaded, last_id,
                file_number, upload_tasks, task_state, semaphore, gather_log,
                upload_errors, cursor, file_index, total_objects, local_files,
                batch_exceptions>>

insertVars == <<bi_pc, bi_objects, bi_response, bi_return>>

restoreVars == <<rs_variant, rs_store, rs_run_arg, rs_pc, backup_run_id, backup_files,
                 rs_i, total_restored, rs_downloads, rs_skipped, rs_calls, db_exists,
                 db_objs, db_next_id>>

flowVars == <<fl_pc, fl_answer1, fl_answer2, fl_exit, fl_requests, fl_steps,
              fl_conn_configured, fl_db0>>

facadeVars == <<fa_service, fa_key, fa_pc, fa_clock, fa_client, fa_client_log, fa_handled,
                fa_queries, fa_api_start, fa_search_start, fa_legs, fa_results,
                fa_response, fa_completed>>

\* the components modelled after the validation workflow
harnessVars == <<hs_harness, hs_pc, hs_answers, hs_facade_status, hs_leg_ok,
                 hs_leg_reports, hs_report, hs_finished, hs_events>>

genVars == <<gn_generator, gn_pc, gn_limit, gn_phrase, gn_requests, query_embeddings,
             gn_files, gn_exit>>

clientVars == <<cl_url, cl_use_grpc, cl_pc, cl_http_port, cl_grpc_port>>

setupVars == <<genVars, clientVars>>

laterVars == <<facadeVars, harnessVars, setupVars>>

vars == <<backupVars, insertVars, restoreVars, flowVars, laterVars>>

Min(a, b) == IF a < b THEN a ELSE b

Truthy(s) == Len(s) > 0

SeqToSet(s) == {s[i] : i \in DOMAIN s}

(***************************************************************************)
(* The database's cursor query: at most `limit` objects that follow the    *)
(* cursor, in the collection's fixed order.                                *)
(***************************************************************************)
DbPage(K, limit, after) ==
    [j \in 1..Min(limit, IF K > after THEN K - after ELSE 0) |-> after + j]

(***************************************************************************)
(* WeaviateBackup.get_objects_batch: the page on success; None on a        *)
(* transport exception, a non-200 status or a GraphQL error list.          *)
(***************************************************************************)
FetchOutcomes == {"ok", "exception", "non200", "graphql_errors"}

get_objects_batch(outcome, K, limit, after_id) ==
    IF outcome = "ok"
    THEN [none |-> FALSE, objs |-> DbPage(K, limit, after_id)]
    ELSE [none |-> TRUE, objs |-> <<>>]

(***************************************************************************)
(* WeaviateBackup.compress_json_data: the compressed bytes (never empty),  *)
(* or None when json.dumps or gzip raised.                                 *)
(***************************************************************************)
compress_json_data(ok, data) ==
    IF ok THEN [none |-> FALSE, data |-> data] ELSE [none |-> TRUE, data |-> <<>>]

(***************************************************************************)
(* WeaviateBackup.upload_to_blob: True when the blob was written; when      *)
(* upload_blob raised, the error is logged with the blob's name and the    *)
(* result is False.                                                        *)
(***************************************************************************)
upload_to_blob(ok, store, blob_name, data) ==
    IF ok
    THEN [result |-> "True", store |-> store \cup {[file |-> blob_name, objs |-> data]},
          logged |-> {}]
    ELSE [result |-> "False", store |-> store, logged |-> {blob_name}]

(***************************************************************************)
(* The pagination cursor of the streaming loop: the last identifier of the *)
(* batch.                                                                  *)
(***************************************************************************)
first_id(objects) == objects[1]

next_last_id(objects) == objects[Len(objects)]

uncapped_batch_size(bs, cap, uploaded) == bs

\* line 236
current_batch_size(bs, cap, uploaded) ==
    IF cap # None THEN Min(bs, cap - uploaded) ELSE bs

(***************************************************************************)
(* upload_async: `async with semaphore` admits a task only while the gate  *)
(* has a free slot.                                                        *)
(***************************************************************************)
CanAcquireNoGate(sem) == TRUE

CanAcquire(sem) == sem > 0

RECURSIVE start_tasks(_, _, _)
start_tasks(st, i, sem) ==
    IF i > Len(st) THEN [st |-> st, sem |-> sem]
    ELSE IF CanAcquire(sem)
         THEN start_tasks([st EXCEPT ![i] = "running"], i + 1, sem - 1)
         ELSE start_tasks([st EXCEPT ![i] = "waiting"], i + 1, sem)

Waiting(st) == {i \in DOMAIN st : st[i] = "waiting"}
Running(st) == {i \in DOMAIN st : st[i] = "running"}
Finished(st) == {i \in DOMAIN st : st[i] \in {"True", "False"}}

FirstWaiting(st) == CHOOSE i \in Waiting(st) : \A j \in Waiting(st) : i <= j

\* The slot is given back when the upload ends, whatever its result, and
\* the longest-waiting task takes it.
release(st, sem) ==
    IF Waiting(st) # {} /\ CanAcquire(sem + 1)
    THEN [st |-> [st EXCEPT ![FirstWaiting(st)] = "running"], sem |-> sem]
    ELSE [st |-> st, sem |-> sem + 1]

restUnchanged == UNCHANGED <<cursor, file_index, total_objects, local_files,
                             batch_exceptions>>
streamUnchanged == UNCHANGED <<total_uploaded, last_id, file_number, upload_tasks,
                               task_state, semaphore, gather_log, upload_errors,
                               compress_errors>>
paramsUnchanged ==
    /\ UNCHANGED <<tool, collection, batch_size, max_objects>>
    /\ UNCHANGED <<insertVars, restoreVars, flowVars, laterVars>>

(***************************************************************************)
(* Leaving the while loop (lines 284-298): await the remaining uploads if  *)
(* there are any, then log "Backup complete".                              *)
(***************************************************************************)
leave_loop(tasks, st, sem) ==
    IF Truthy(tasks)
    THEN /\ pc' = "final"
         /\ task_state' = start_tasks(st, 1, sem).st
         /\ semaphore' = start_tasks(st, 1, sem).sem
         /\ complete' = complete
    ELSE /\ pc' = "complete"
         /\ complete' = TRUE
         /\ UNCHANGED <<task_state, semaphore>>

\* line 230: the cap is reached
sb_cap_reached ==
    /\ tool = "stream" /\ pc = "top"
    /\ max_objects # None /\ total_uploaded >= max_objects
    /\ leave_loop(upload_tasks, task_state, semaphore)
    /\ UNCHANGED <<blobs, fetch_log, faults, compress_errors, total_uploaded, last_id,
                   file_number, upload_tasks, gather_log, upload_errors>>
    /\ paramsUnchanged /\ restUnchanged

\* lines 233-239: the fetch of the next batch is sent
sb_fetch_begin ==
    /\ tool = "stream" /\ pc = "top"
    /\ ~(max_objects # None /\ total_uploaded >= max_objects)
    /\ file_number' = file_number + 1
    /\ pc' = "fetching"
    /\ UNCHANGED <<blobs, fetch_log, faults, compress_errors, complete, total_uploaded,
                   last_id, upload_tasks, task_state, semaphore, gather_log,
                   upload_errors>>
    /\ paramsUnchanged /\ restUnchanged

\* lines 239-282: the fetch returns and the rest of the iteration runs
sb_fetch_end ==
    /\ tool = "stream" /\ pc = "fetching"
    /\ \E outcome \in FetchOutcomes, cok \in BOOLEAN :
         LET limit == current_batch_size(batch_size, max_objects, total_uploaded)
             got == get_objects_batch(outcome, collection, limit, last_id)
             objects == got.objs
             compressed == compress_json_data(cok, objects)
             tasks == Append(upload_tasks, [file |-> file_number, objs |-> objects])
             states == Append(task_state, "created")
         IN  /\ outcome # "ok" => (faults < MaxFaults /\ cok)
             /\ ~cok => (faults < MaxFaults /\ Truthy(objects))
             /\ faults' = IF outcome # "ok" \/ ~cok THEN faults + 1 ELSE faults
             /\ fetch_log' = Append(fetch_log, [limit |-> limit, after |-> last_id,
                                                ok |-> ~got.none, objs |-> objects])
             /\ IF got.none \/ ~Truthy(objects)
                THEN \* line 241: "No more objects to backup"
                     /\ leave_loop(upload_tasks, task_state, semaphore)
                     /\ UNCHANGED <<last_id, upload_tasks, total_uploaded, compress_errors,
                                    gather_log>>
                ELSE /\ last_id' = next_last_id(objects)
                     /\ IF compressed.none
                        THEN \* line 251: the batch is dropped and the loop continues
                             /\ compress_errors' = compress_errors + 1
                             /\ pc' = "top"
                             /\ UNCHANGED <<upload_tasks, task_state, semaphore,
                                            total_uploaded, complete, gather_log>>
                        ELSE /\ upload_tasks' = tasks
                             /\ total_uploaded' = total_uploaded + Len(objects)
                             /\ UNCHANGED <<compress_errors, complete, gather_log>>
                             /\ IF file_number % GcEvery = 0
                                THEN /\ pc' = "gather"
                                     /\ task_state' = start_tasks(states, 1, semaphore).st
                                     /\ semaphore' = start_tasks(states, 1, semaphore).sem
                                ELSE /\ pc' = "top"
                                     /\ task_state' = states
                                     /\ UNCHANGED semaphore
    /\ UNCHANGED <<blobs, file_number, upload_errors>>
    /\ paramsUnchanged /\ restUnchanged

\* lines 219-221: one upload ends and its slot is released
sb_upload_end ==
    /\ tool = "stream" /\ pc \in {"gather", "final"}
    /\ \E i \in Running(task_state), ok \in BOOLEAN :
         LET up == upload_to_blob(ok, blobs, upload_tasks[i].file, upload_tasks[i].objs)
             rel == release([task_state EXCEPT ![i] = up.result], semaphore)
         IN  /\ ~ok => faults < MaxFaults
             /\ faults' = IF ok THEN faults ELSE faults + 1
             /\ blobs' = up.store
             /\ upload_errors' = upload_errors \cup up.logged
             /\ task_state' = rel.st
             /\ semaphore' = rel.sem
    /\ UNCHANGED <<pc, fetch_log, compress_errors, complete, total_uploaded, last_id,
                   file_number, upload_tasks, gather_log>>
    /\ paramsUnchanged /\ restUnchanged

attempted(st) == Len(st)

\* line 277: sum(1 for r in results if r is True)
successful(st) == Cardinality({i \in DOMAIN st : st[i] = "True"})

\* lines 276-279: the every-10th-batch gather returns
sb_gather_return ==
    /\ tool = "stream" /\ pc = "gather"
    /\ Finished(task_state) = DOMAIN task_state
    /\ gather_log' = Append(gather_log, [batch |-> file_number,
                                         successful |-> successful(task_state),
                                         total |-> Len(task_state)])
    /\ upload_tasks' = <<>>
    /\ task_state' = <<>>
    /\ pc' = "top"
    /\ UNCHANGED <<blobs, fetch_log, faults, compress_errors, complete, total_uploaded,
                   last_id, file_number, semaphore, upload_errors>>
    /\ paramsUnchanged /\ restUnchanged

\* lines 287-298: the final gather returns and the run is logged complete
sb_final_return ==
    /\ tool = "stream" /\ pc = "final"
    /\ Finished(task_state) = DOMAIN task_state
    /\ gather_log' = Append(gather_log, [batch |-> file_number,
                                         successful |-> successful(task_state),
                                         total |-> Len(task_state)])
    /\ pc' = "complete"
    /\ complete' = TRUE
    /\ UNCHANGED <<blobs, fetch_log, faults, compress_errors, total_uploaded, last_id,
                   file_number, upload_tasks, task_state, semaphore, upload_errors>>
    /\ paramsUnchanged /\ restUnchanged

(***************************************************************************)
(* REST fallback backup (backup_restore/backup_v4.py).                     *)
(***************************************************************************)
RestFetchOutcomes == {"ok", "non200", "exception"}

\* get_batch_with_cursor_rest: the page on HTTP 200, [] on every failure
get_batch_with_cursor_rest(outcome, K, bs, cur) ==
    IF outcome = "ok" THEN DbPage(K, bs, cur) ELSE <<>>

\* upload_to_azure: True when the file was uploaded, False when it raised
upload_to_azure(ok, store, blob_name, data) ==
    IF ok
    THEN [result |-> TRUE, store |-> store \cup {[file |-> blob_name, objs |-> data]}]
    ELSE [result |-> FALSE, store |-> store]

\* line 213: cursor = batch[-1]["_additional"]["id"]
next_cursor(batch) == batch[Len(batch)]

\* lines 197-198: open(file_name, 'w') creates or overwrites the local file
write_local(files, file_name) == files \cup {file_name}

always_cleanup(files, file_name, upload_success) == files \ {file_name}

\* lines 208-211: os.remove(file_name) only if upload_success
cleanup(files, file_name, upload_success) ==
    IF upload_success THEN files \ {file_name} ELSE files

\* lines 181-224: one pass of the while loop
rb_iterate ==
    /\ tool = "rest" /\ pc = "top"
    /\ \E outcome \in RestFetchOutcomes, wok \in BOOLEAN, uok \in BOOLEAN,
          left \in BOOLEAN :
         LET batch == get_batch_with_cursor_rest(outcome, collection, batch_size, cursor)
             up == upload_to_azure(uok, blobs, file_index, batch)
             failed == outcome # "ok" \/ ~wok \/ ~uok
         IN  /\ failed => faults < MaxFaults
             /\ outcome # "ok" => (wok /\ uok)
             /\ ~wok => (uok /\ Truthy(batch))
             /\ ~uok => Truthy(batch)
             /\ left => ~wok
             /\ faults' = IF failed THEN faults + 1 ELSE faults
             /\ fetch_log' = Append(fetch_log, [limit |-> batch_size, after |-> cursor,
                                                ok |-> outcome = "ok", objs |-> batch])
             /\ IF ~Truthy(batch)
                THEN \* line 187: "No more objects"; lines 226-232
                     /\ pc' = "complete"
                     /\ complete' = TRUE
                     /\ UNCHANGED <<blobs, cursor, file_index, total_objects, local_files,
                                    batch_exceptions>>
                ELSE IF ~wok
                THEN \* line 221: the exception is printed and the loop continues;
                     \* the file may have been created before the write raised
                     /\ batch_exceptions' = batch_exceptions + 1
                     /\ local_files' = IF left THEN write_local(local_files, file_index)
                                       ELSE local_files
                     /\ UNCHANGED <<pc, complete, blobs, cursor, file_index,
                                    total_objects>>
                ELSE /\ blobs' = up.store
                     /\ local_files' = cleanup(write_local(local_files, file_index),
                                               file_index, up.result)
                     /\ cursor' = next_cursor(batch)
                     /\ total_objects' = total_objects + Len(batch)
                     /\ file_index' = file_index + 1
                     /\ UNCHANGED <<pc, complete, batch_exceptions>>
    /\ paramsUnchanged /\ streamUnchanged

BackupIdle ==
    /\ tool = "none" /\ collection = 0 /\ batch_size = 1 /\ max_objects = None
    /\ pc = "idle" /\ blobs = {} /\ fetch_log = <<>> /\ faults = 0
    /\ compress_errors = 0 /\ complete = FALSE /\ total_uploaded = 0
    /\ last_id = None /\ file_number = 0 /\ upload_tasks = <<>> /\ task_state = <<>>
    /\ semaphore = max_parallel /\ gather_log = <<>> /\ upload_errors = {}
    /\ cursor = None /\ file_index = 1 /\ total_objects = 0 /\ local_files = {}
    /\ batch_exceptions = 0

InsertIdle ==
    /\ bi_pc = "idle" /\ bi_objects = <<>>
    /\ bi_response = [kind |-> "none", result |-> <<>>]
    /\ bi_return = [success |-> 0, error |-> 0]

RestoreIdle ==
    /\ rs_variant = "none" /\ rs_store = <<>> /\ rs_run_arg = None /\ rs_pc = "idle"
    /\ backup_run_id = None /\ backup_files = <<>> /\ rs_i = 1 /\ total_restored = 0
    /\ rs_downloads = <<>> /\ rs_skipped = <<>> /\ rs_calls = <<>>
    /\ db_exists = FALSE /\ db_objs = {} /\ db_next_id = 0

FlowIdle ==
    /\ fl_pc = "idle" /\ fl_answer1 = <<>> /\ fl_answer2 = <<>> /\ fl_exit = -1
    /\ fl_requests = <<>> /\ fl_steps = <<>> /\ fl_conn_configured = FALSE
    /\ fl_db0 = [exists |-> FALSE, objs |-> {}]

NoClient == [id |-> 0, auth |-> ""]

NoResponse == [status |-> 0]

FacadeIdle ==
    /\ fa_service = "none" /\ fa_key = "" /\ fa_pc = "idle" /\ fa_clock = 0
    /\ fa_client = NoClient /\ fa_client_log = <<>> /\ fa_handled = 0
    /\ fa_queries = <<>> /\ fa_api_start = 0 /\ fa_search_start = 0
    /\ fa_legs = <<>> /\ fa_results = <<>> /\ fa_response = NoResponse
    /\ fa_completed = <<>>

HarnessIdle ==
    /\ hs_harness = "none" /\ hs_pc = "idle" /\ hs_answers = <<>>
    /\ hs_facade_status = 0 /\ hs_leg_ok = <<>> /\ hs_leg_reports = <<>>
    /\ hs_report = "none" /\ hs_finished = <<>> /\ hs_events = <<>>

SEARCH_QUERIES == 1..MaxPhrases

GenIdle ==
    /\ gn_generator = "none" /\ gn_pc = "idle" /\ gn_limit = 1 /\ gn_phrase = 1
    /\ gn_requests = <<>> /\ query_embeddings = [q \in SEARCH_QUERIES |-> None]
    /\ gn_files = {} /\ gn_exit = -1

ClientIdle ==
    /\ cl_url = [https |-> FALSE, port_str |-> <<>>] /\ cl_use_grpc = FALSE
    /\ cl_pc = "idle" /\ cl_http_port = 0 /\ cl_grpc_port = 0

SetupIdle == GenIdle /\ ClientIdle

LaterIdle == FacadeIdle /\ HarnessIdle /\ SetupIdle

(***************************************************************************)
(* The backup specification: one run of one of the two tools against a     *)
(* collection of K objects, with no concurrent writes.                     *)
(***************************************************************************)
BackupInit ==
    /\ tool \in {"stream", "rest"}
    /\ collection \in 0..MaxObjects
    /\ batch_size \in 1..MaxBatch
    /\ max_objects \in IF tool = "stream" THEN 0..MaxCap ELSE {None}
    /\ pc = "top"
    /\ blobs = {}
    /\ fetch_log = <<>>
    /\ faults = 0
    /\ compress_errors = 0
    /\ complete = FALSE
    /\ total_uploaded = 0
    /\ last_id = None
    /\ file_number = 0
    /\ upload_tasks = <<>>
    /\ task_state = <<>>
    /\ semaphore = max_parallel
    /\ gather_log = <<>>
    /\ upload_errors = {}
    /\ cursor = None
    /\ file_index = 1
    /\ total_objects = 0
    /\ local_files = {}
    /\ batch_exceptions = 0
    /\ InsertIdle
    /\ RestoreIdle
    /\ FlowIdle
    /\ LaterIdle

BackupNext ==
    \/ sb_cap_reached
    \/ sb_fetch_begin
    \/ sb_fetch_end
    \/ sb_upload_end
    \/ sb_gather_return
    \/ sb_final_return
    \/ rb_iterate

SpecBackup == BackupInit /\ [][BackupNext]_vars

BackupTypeOK ==
    /\ pc \in {"top", "fetching", "gather", "final", "complete"}
    /\ semaphore \in Int
    /\ bi_pc = "idle" /\ rs_pc = "idle"
    /\ Len(task_state) = Len(upload_tasks)

(***************************************************************************)
(* Claims about the backup tools (checked under SpecBackup).               *)
(***************************************************************************)
FilesHolding(o) == {b \in blobs : o \in SeqToSet(b.objs)}

AllFetchesOk == \A i \in DOMAIN fetch_log : fetch_log[i].ok

FetchedIds(o) == {i \in DOMAIN fetch_log : o \in SeqToSet(fetch_log[i].objs)}

LoopLeft == pc \in {"final", "complete"}

\* C1: a run reported complete holds in its blobs exactly the objects of the
\* collection as of run start, each in exactly one file, whatever failed
\* during the run (runs without an object cap).
C1_CompleteRunHoldsCollection ==
    (complete /\ max_objects = None) =>
        /\ \A o \in 1..collection : Cardinality(FilesHolding(o)) = 1
        /\ \A b \in blobs : SeqToSet(b.objs) \subseteq 1..collection

PagingConclusion ==
    /\ Len(fetch_log) > 0 => fetch_log[1].after = None
    /\ \A i \in 2..Len(fetch_log) :
         /\ Truthy(fetch_log[i - 1].objs)
         /\ fetch_log[i].after = fetch_log[i - 1].objs[Len(fetch_log[i - 1].objs)]
    /\ (Len(fetch_log) > 0 /\ ~Truthy(fetch_log[Len(fetch_log)].objs)) => LoopLeft
    /\ LoopLeft =>
         /\ Len(fetch_log) > 0 /\ ~Truthy(fetch_log[Len(fetch_log)].objs)
         /\ \A o \in 1..collection : Cardinality(FetchedIds(o)) = 1
         /\ \A i \in DOMAIN fetch_log : SeqToSet(fetch_log[i].objs) \subseteq 1..collection

C3_FetchOrCompressErrorAborts ==
    (tool = "stream" /\ (~AllFetchesOk \/ compress_errors > 0)) => ~complete

\* C4: at most max_parallel uploads are in flight; a task waits only while
\* the gate is full; a slot is held by running uploads only, so it is given
\* back when the upload ends with either result.
C4_UploadGate ==
    tool = "stream" =>
        /\ Cardinality(Running(task_state)) <= max_parallel
        /\ semaphore = max_parallel - Cardinality(Running(task_state))
        /\ Waiting(task_state) # {} => Cardinality(Running(task_state)) = max_parallel
        /\ Running(task_state) \cup Waiting(task_state) # {} => pc \in {"gather", "final"}

C4_Witness ==
    /\ tool = "stream"
    /\ Waiting(task_state) # {}
    /\ Cardinality(Running(task_state)) = max_parallel
    /\ \E i \in DOMAIN task_state : task_state[i] = "False"
    /\ \E i \in DOMAIN task_state : task_state[i] = "True"

(***************************************************************************)
(* weaviate_client.batch_insert_objects.                                   *)
(*                                                                         *)
(* A song record as the backup tools fetch it: its properties and the      *)
(* `_additional` block holding the identifier and the vector.              *)
(***************************************************************************)
ADDITIONAL == "_additional"

Record(i) ==
    ("title" :> "title") @@ ("song_id" :> i) @@
    (ADDITIONAL :> [id |-> i, vector |-> <<i>>])

Properties(i) == ("title" :> "title") @@ ("song_id" :> i)

\* the database's answer to POST /v1/batch/objects: HTTP 200 with one
\* error marker per result item, another status, or no answer at all
AnyResponses ==
    {[kind |-> "200", result |-> r] :
        r \in UNION {[1..m -> BOOLEAN] : m \in 0..MaxResult}}
    \cup {[kind |-> "non200", result |-> <<>>], [kind |-> "exception", result |-> <<>>]}

\* the answers of a database that reports on each object of the batch
WellFormedResponses(n) ==
    {[kind |-> "200", result |-> r] : r \in [1..n -> BOOLEAN]}
    \cup {[kind |-> "non200", result |-> <<>>], [kind |-> "exception", result |-> <<>>]}

\* lines 112-118: the payload carries class, properties and vector only
batch_payload(objects, collection_name) ==
    [k \in DOMAIN objects |-> [class |-> collection_name,
                               properties |-> objects[k].properties,
                               vector |-> objects[k].vector]]

error_items(result) == Cardinality({k \in DOMAIN result : result[k]})

\* lines 104-158
batch_insert_objects(objects, collection_name, response) ==
    LET payload == batch_payload(objects, collection_name)
        errors == error_items(response.result)
        oks == Len(response.result) - errors
    IN  IF ~Truthy(payload)
        THEN [success |-> 0, error |-> 0, payload |-> payload, sent |-> FALSE]
        ELSE IF response.kind = "exception"
        THEN [success |-> 0, error |-> Len(objects), payload |-> payload, sent |-> TRUE]
        ELSE IF response.kind = "200"
        THEN [success |-> IF oks = 0 /\ errors = 0 THEN Len(payload) ELSE oks,
              error |-> errors, payload |-> payload, sent |-> TRUE]
        ELSE [success |-> 0, error |-> Len(payload), payload |-> payload, sent |-> TRUE]

SomeObjects(n) == [k \in 1..n |-> [properties |-> Properties(k), vector |-> <<k>>]]

bi_call ==
    /\ bi_pc = "call"
    /\ \E response \in AnyResponses :
         LET r == batch_insert_objects(bi_objects, "SongLyrics", response)
         IN  /\ bi_response' = response
             /\ bi_return' = [success |-> r.success, error |-> r.error]
    /\ bi_pc' = "returned"
    /\ UNCHANGED <<bi_objects, backupVars, restoreVars, flowVars, laterVars>>

InsertInit ==
    /\ bi_pc = "call"
    /\ bi_objects \in {SomeObjects(n) : n \in 0..MaxInsert}
    /\ bi_response = [kind |-> "none", result |-> <<>>]
    /\ bi_return = [success |-> 0, error |-> 0]
    /\ BackupIdle
    /\ RestoreIdle
    /\ FlowIdle
    /\ LaterIdle

InsertNext == bi_call

SpecInsert == InsertInit /\ [][InsertNext]_vars

\* C5: batch_insert_objects returns counts that add up to the number of
\* objects handed in, for every batch and every database outcome.
C5_BatchAccounting ==
    bi_pc = "returned" => bi_return.success + bi_return.error = Len(bi_objects)

(***************************************************************************)
(* The restore tools: backup_restore/restore_from_blob.py (backup-run      *)
(* aware) and restore_from_blob.py (flat).                                 *)
(***************************************************************************)
\* blob names sort by run identifier, then by file name
NameKey(name) == name.run * 100 + name.n

RECURSIVE newest_first(_)
newest_first(names) ==
    IF names = {} THEN <<>>
    ELSE LET last == CHOOSE a \in names : \A b \in names : NameKey(a) >= NameKey(b)
         IN  <<last>> \o newest_first(names \ {last})

\* sorted([blob.name for blob in blobs])
RECURSIVE sorted(_)
sorted(names) ==
    IF names = {} THEN <<>>
    ELSE LET first == CHOOSE a \in names : \A b \in names : NameKey(a) <= NameKey(b)
         IN  <<first>> \o sorted(names \ {first})

RECURSIVE sorted_reverse(_)
sorted_reverse(ids) ==
    IF ids = {} THEN <<>>
    ELSE LET newest == CHOOSE a \in ids : \A b \in ids : a >= b
         IN  <<newest>> \o sorted_reverse(ids \ {newest})

\* run-aware lines 42-59: the run identifiers, newest first; [] on error
list_backup_runs(ok, store) ==
    IF ok THEN sorted_reverse({name.run : name \in DOMAIN store}) ELSE <<>>

\* run-aware lines 61-69: the files of one run, sorted; [] on error
list_backup_files(ok, store, run) ==
    IF ok THEN sorted({name \in DOMAIN store : name.run = run}) ELSE <<>>

\* flat lines 37-44: every blob under the collection prefix, sorted
flat_list_backup_files(ok, store) ==
    IF ok THEN sorted(DOMAIN store) ELSE <<>>

\* gzip.GzipFile(...).read(): the payload of a gzip blob; anything else
\* raises BadGzipFile
gunzip(blob) ==
    IF blob.gz THEN [raised |-> "none", valid |-> blob.valid, records |-> blob.records]
    ELSE [raised |-> "BadGzipFile", valid |-> FALSE, records |-> <<>>]

\* json.loads: the records of a well-formed document; raises otherwise
json_loads(valid, records) ==
    IF valid THEN [raised |-> FALSE, records |-> records]
    ELSE [raised |-> TRUE, records |-> <<>>]

\* run-aware lines 108-131: gzip first, plain JSON on a not-gzip signature,
\* [] on any other error
download_and_decompress(dl_ok, blob) ==
    IF ~dl_ok THEN <<>>
    ELSE IF gunzip(blob).raised = "none"
    THEN json_loads(gunzip(blob).valid, gunzip(blob).records).records
    ELSE json_loads(blob.valid, blob.records).records

\* flat lines 46-66: gzip only, [] on any error
flat_download_and_decompress(dl_ok, blob) ==
    IF ~dl_ok THEN <<>>
    ELSE IF gunzip(blob).raised = "none"
    THEN json_loads(gunzip(blob).valid, gunzip(blob).records).records
    ELSE <<>>

keep_additional(obj) == obj

\* additional = obj.pop('_additional', {}): obj loses the metadata block
pop_additional(obj) == [f \in DOMAIN obj \ {ADDITIONAL} |-> obj[f]]

get_vector(obj) == IF ADDITIONAL \in DOMAIN obj THEN obj[ADDITIONAL].vector ELSE <<>>

\* run-aware lines 206-214, flat lines 97-105
objects_to_insert(objects) ==
    [k \in DOMAIN objects |-> [properties |-> pop_additional(objects[k]),
                               vector |-> get_vector(objects[k])]]

\* the database stores the items it reports no error for, under new ids
db_insert(objs, next_id, payload, response) ==
    IF response.kind = "200"
    THEN objs \cup {[id |-> next_id + k, properties |-> payload[k].properties,
                     vector |-> payload[k].vector] :
                        k \in {j \in DOMAIN payload : ~response.result[j]}}
    ELSE objs

restoreLoopUnchanged ==
    /\ UNCHANGED <<rs_variant, rs_store, rs_run_arg>>
    /\ UNCHANGED <<backupVars, insertVars, flowVars, laterVars>>

\* run-aware lines 146-154: list the runs; return when there is none
rs_start ==
    /\ rs_variant = "runaware" /\ rs_pc = "start"
    /\ \E ok \in BOOLEAN :
         LET backup_runs == list_backup_runs(ok, rs_store)
         IN  IF ~Truthy(backup_runs)
             THEN rs_pc' = "returned" /\ UNCHANGED backup_run_id
             ELSE IF rs_run_arg = None
             THEN rs_pc' = "choose" /\ UNCHANGED backup_run_id
             ELSE rs_pc' = "list_files" /\ backup_run_id' = rs_run_arg
    /\ UNCHANGED <<backup_files, rs_i, total_restored, rs_downloads, rs_skipped, rs_calls,
                   db_exists, db_objs, db_next_id>>
    /\ restoreLoopUnchanged

\* run-aware lines 155-180: the operator picks a run; 0 stands for an
\* answer that is no integer
rs_choose ==
    /\ rs_variant = "runaware" /\ rs_pc = "choose"
    /\ \E choice \in 0..3 :
         LET backup_runs == list_backup_runs(TRUE, rs_store)
         IN  IF 1 <= choice /\ choice <= Len(backup_runs)
             THEN rs_pc' = "list_files" /\ backup_run_id' = backup_runs[choice]
             ELSE rs_pc' = "returned" /\ UNCHANGED backup_run_id
    /\ UNCHANGED <<backup_files, rs_i, total_restored, rs_downloads, rs_skipped, rs_calls,
                   db_exists, db_objs, db_next_id>>
    /\ restoreLoopUnchanged

\* run-aware lines 184-193
rs_list_files ==
    /\ rs_variant = "runaware" /\ rs_pc = "list_files"
    /\ \E ok \in BOOLEAN :
         LET files == list_backup_files(ok, rs_store, backup_run_id)
         IN  IF ~Truthy(files)
             THEN rs_pc' = "returned" /\ UNCHANGED backup_files
             ELSE rs_pc' = "loop" /\ backup_files' = files
    /\ UNCHANGED <<backup_run_id, rs_i, total_restored, rs_downloads, rs_skipped, rs_calls,
                   db_exists, db_objs, db_next_id>>
    /\ restoreLoopUnchanged

\* flat lines 75-84
rs_flat_start ==
    /\ rs_variant = "flat" /\ rs_pc = "start"
    /\ \E ok \in BOOLEAN :
         LET files == flat_list_backup_files(ok, rs_store)
         IN  IF ~Truthy(files)
             THEN rs_pc' = "returned" /\ UNCHANGED backup_files
             ELSE rs_pc' = "loop" /\ backup_files' = files
    /\ UNCHANGED <<backup_run_id, rs_i, total_restored, rs_downloads, rs_skipped, rs_calls,
                   db_exists, db_objs, db_next_id>>
    /\ restoreLoopUnchanged

\* run-aware lines 196-231, flat lines 87-122: one file
rs_process_file ==
    /\ rs_pc = "loop" /\ rs_i <= Len(backup_files)
    /\ \E dl_ok \in BOOLEAN :
         LET blob_name == backup_files[rs_i]
             objects == IF rs_variant = "flat"
                        THEN flat_download_and_decompress(dl_ok, rs_store[blob_name])
                        ELSE download_and_decompress(dl_ok, rs_store[blob_name])
             to_insert == objects_to_insert(objects)
         IN  /\ rs_downloads' = Append(rs_downloads, [file |-> blob_name, ok |-> dl_ok])
             /\ IF ~Truthy(objects)
                THEN /\ rs_skipped' = Append(rs_skipped, blob_name)
                     /\ UNCHANGED <<total_restored, rs_calls, db_objs, db_next_id>>
                ELSE \E response \in WellFormedResponses(Len(objects)) :
                       LET r == batch_insert_objects(to_insert, "SongLyrics_10k", response)
                       IN  /\ total_restored' = total_restored + r.success
                           /\ rs_calls' = Append(rs_calls,
                                  [file |-> blob_name, objects |-> to_insert,
                                   payload |-> r.payload, sent |-> r.sent])
                           /\ db_objs' = db_insert(db_objs, db_next_id, r.payload, response)
                           /\ db_next_id' = db_next_id + Len(r.payload)
                           /\ UNCHANGED rs_skipped
    /\ rs_i' = rs_i + 1
    /\ UNCHANGED <<rs_pc, backup_run_id, backup_files, db_exists>>
    /\ restoreLoopUnchanged

\* run-aware lines 233-236, flat lines 124-127: "Restore complete"
rs_finish ==
    /\ rs_pc = "loop" /\ rs_i > Len(backup_files)
    /\ rs_pc' = "complete"
    /\ UNCHANGED <<backup_run_id, backup_files, rs_i, total_restored, rs_downloads,
                   rs_skipped, rs_calls, db_exists, db_objs, db_next_id>>
    /\ restoreLoopUnchanged

(***************************************************************************)
(* Blob storage as the backup tools leave it: an older run of one gzip     *)
(* file, and a newest run whose files are gzip (streaming backup), plain   *)
(* JSON (REST fallback backup), an empty list, or undecodable.             *)
(***************************************************************************)
BlobKinds == {"gzip", "plain", "empty", "corrupt"}

FileRecords(run, n) == [k \in 1..n |-> Record(100 + 10 * run + 3 * n + k)]

Content(kind, run, n) ==
    [gz |-> kind \in {"gzip", "empty"},
     valid |-> kind # "corrupt",
     records |-> IF kind \in {"gzip", "plain"} THEN FileRecords(run, n) ELSE <<>>]

OldRun == 1
NewestRun == 2

StoreOf(old, kinds) ==
    [name \in {[run |-> NewestRun, n |-> i] : i \in DOMAIN kinds}
              \cup (IF old THEN {[run |-> OldRun, n |-> 1]} ELSE {}) |->
        IF name.run = NewestRun THEN Content(kinds[name.n], name.run, name.n)
        ELSE Content("gzip", name.run, name.n)]

Stores ==
    {StoreOf(old, kinds) :
        old \in BOOLEAN, kinds \in UNION {[1..nf -> BlobKinds] : nf \in 0..MaxFiles}}

FirstNewId == 1000

RestoreInit ==
    /\ rs_variant \in {"runaware", "flat"}
    /\ rs_store \in Stores
    /\ rs_run_arg \in IF rs_variant = "runaware" THEN {None, NewestRun} ELSE {None}
    /\ rs_pc = "start"
    /\ backup_run_id = None
    /\ backup_files = <<>>
    /\ rs_i = 1
    /\ total_restored = 0
    /\ rs_downloads = <<>>
    /\ rs_skipped = <<>>
    /\ rs_calls = <<>>
    /\ db_exists = TRUE
    /\ db_objs = {}
    /\ db_next_id = FirstNewId
    /\ BackupIdle
    /\ InsertIdle
    /\ FlowIdle
    /\ LaterIdle

RestoreNext ==
    \/ rs_start
    \/ rs_choose
    \/ rs_list_files
    \/ rs_flat_start
    \/ rs_process_file
    \/ rs_finish

SpecRestore == RestoreInit /\ [][RestoreNext]_vars

(***************************************************************************)
(* Claims about the restore tools (checked under SpecRestore).             *)
(***************************************************************************)
IsPlainJson(blob) == ~blob.gz /\ blob.valid /\ Truthy(blob.records)

HandedToInsert(name) == \E c \in DOMAIN rs_calls : rs_calls[c].file = name

\* C6: in each restore variant a blob holding plain, non-gzip JSON is loaded
\* through the fallback path: once downloaded, its records are handed to
\* batch insert and the file is not skipped.
C6_PlainJsonLoaded ==
    \A i \in DOMAIN rs_downloads :
        (rs_downloads[i].ok /\ IsPlainJson(rs_store[rs_downloads[i].file])) =>
            /\ HandedToInsert(rs_downloads[i].file)
            /\ \A k \in DOMAIN rs_skipped : rs_skipped[k] # rs_downloads[i].file

\* C7: every object sent to batch insert is {class, properties, vector}
\* with the record's vector, the record's fields without the `_additional`
\* block, and no identifier; the database stores it under a new one.
C7_ReshapedWithoutIdentifier ==
    /\ \A c \in DOMAIN rs_calls :
         LET records == rs_store[rs_calls[c].file].records
             payload == rs_calls[c].payload
         IN  /\ rs_calls[c].sent
             /\ Len(payload) = Len(records)
             /\ \A k \in DOMAIN payload :
                  /\ DOMAIN payload[k] = {"class", "properties", "vector"}
                  /\ payload[k].vector = records[k][ADDITIONAL].vector
                  /\ DOMAIN payload[k].properties = DOMAIN records[k] \ {ADDITIONAL}
                  /\ \A f \in DOMAIN payload[k].properties :
                       payload[k].properties[f] = records[k][f]
    /\ \A o \in db_objs :
         \A name \in DOMAIN rs_store : \A k \in DOMAIN rs_store[name].records :
             o.id # rs_store[name].records[k][ADDITIONAL].id

C7_Witness ==
    /\ rs_pc = "complete"
    /\ Len(rs_calls) = 2
    /\ Cardinality(db_objs) = 3
    /\ \E c \in DOMAIN rs_calls : ~rs_store[rs_calls[c].file].gz

(***************************************************************************)
(* The backup/restore validation workflow                                  *)
(* (backup_restore/test_backup_restore.py).  Operator input is a sequence  *)
(* of characters.                                                          *)
(***************************************************************************)
YES == <<"y", "e", "s">>

COLLECTION_NAME == <<"S", "o", "n", "g", "L", "y", "r", "i", "c", "s", "_", "1", "0", "k">>

Whitespace == {" ", "\t", "\n"}

RECURSIVE lstrip(_)
lstrip(t) == IF t = <<>> \/ Head(t) \notin Whitespace THEN t ELSE lstrip(Tail(t))

RECURSIVE rstrip(_)
rstrip(t) ==
    IF t = <<>> \/ t[Len(t)] \notin Whitespace THEN t ELSE rstrip(SubSeq(t, 1, Len(t) - 1))

\* str.strip()
strip(t) == rstrip(lstrip(t))

lower_char(c) ==
    CASE c = "Y" -> "y" [] c = "E" -> "e" [] c = "S" -> "s" [] c = "L" -> "l"
      [] c = "N" -> "n" [] c = "O" -> "o" [] OTHER -> c

\* str.lower()
lower(t) == [i \in DOMAIN t |-> lower_char(t[i])]

Answers1 ==
    {YES, <<"Y", "E", "S">>, <<" ", "y", "e", "s", " ">>, <<"n", "o">>, <<"y">>, <<>>}

Answers2 ==
    {COLLECTION_NAME, COLLECTION_NAME \o <<" ">>, lower(COLLECTION_NAME),
     <<"S", "o", "n", "g", "L", "y", "r", "i", "c", "s">>, <<>>}

\* main line 282: confirm = input(...).strip().lower(); confirm != 'yes'
proceed_confirmed(answer) == lower(strip(answer)) = YES

any_name(answer, collection_name) == TRUE

\* delete_collection lines 77-79: confirm = input(...).strip();
\* confirm != collection_name
name_confirmed(answer, collection_name) == strip(answer) = collection_name

keep_going(ok, next) == [pc |-> next, exit |-> -1]

\* main lines 287-324: a failed step ends the process with status 1
after_step(ok, next) ==
    IF ok THEN [pc |-> next, exit |-> IF next = "done" THEN 0 ELSE -1]
    ELSE [pc |-> "done", exit |-> 1]

flowUnchangedRestore ==
    UNCHANGED <<rs_store, backup_run_id, backup_files, rs_i, total_restored,
                rs_downloads, rs_skipped, rs_calls>>

\* main lines 281-284
fl_prompt ==
    /\ fl_pc = "start"
    /\ \E answer \in Answers1 :
         /\ fl_answer1' = answer
         /\ IF proceed_confirmed(answer)
            THEN fl_pc' = "delete" /\ UNCHANGED fl_exit
            ELSE fl_pc' = "done" /\ fl_exit' = 0
    /\ UNCHANGED <<fl_answer2, fl_requests, fl_steps, fl_conn_configured, fl_db0>>
    /\ UNCHANGED <<backupVars, insertVars, restoreVars, laterVars>>

\* delete_collection (lines 18-97) and main lines 287-289
fl_delete_collection ==
    /\ fl_pc = "delete"
    /\ \E get_ok \in BOOLEAN, answer \in Answers2, delete_ok \in BOOLEAN :
         LET found == get_ok /\ db_exists
             confirmed == found /\ name_confirmed(answer, COLLECTION_NAME)
             ok == confirmed /\ delete_ok
             r == after_step(ok, "recreate")
         IN  /\ ~found => (answer = <<>> /\ delete_ok)
             /\ (found /\ ~confirmed) => delete_ok
             /\ fl_answer2' = IF found THEN answer ELSE fl_answer2
             /\ fl_requests' = fl_requests \o <<"GET_SCHEMA">>
                                \o (IF found THEN <<"COUNT">> ELSE <<>>)
                                \o (IF confirmed THEN <<"DELETE">> ELSE <<>>)
             /\ db_exists' = IF ok THEN FALSE ELSE db_exists
             /\ db_objs' = IF ok THEN {} ELSE db_objs
             /\ fl_steps' = Append(fl_steps, [step |-> "delete", ok |-> ok])
             /\ fl_pc' = r.pc
             /\ fl_exit' = r.exit
    /\ UNCHANGED <<fl_answer1, fl_conn_configured, fl_db0>>
    /\ UNCHANGED <<rs_variant, rs_run_arg, rs_pc, db_next_id>>
    /\ flowUnchangedRestore
    /\ UNCHANGED <<backupVars, insertVars, laterVars>>

\* recreate_schema (lines 100-145) and main lines 292-294
fl_recreate_schema ==
    /\ fl_pc = "recreate"
    /\ \E source_ok \in BOOLEAN, post_ok \in BOOLEAN :
         LET ok == source_ok /\ post_ok
             r == after_step(ok, "restore")
         IN  /\ ~source_ok => post_ok
             /\ fl_requests' = fl_requests \o <<"GET_SOURCE_SCHEMA">>
                                \o (IF source_ok THEN <<"POST_SCHEMA">> ELSE <<>>)
             /\ db_exists' = IF ok THEN TRUE ELSE db_exists
             /\ fl_steps' = Append(fl_steps, [step |-> "recreate", ok |-> ok])
             /\ fl_pc' = r.pc
             /\ fl_exit' = r.exit
    /\ UNCHANGED <<fl_answer1, fl_answer2, fl_conn_configured, fl_db0>>
    /\ UNCHANGED <<rs_variant, rs_run_arg, rs_pc, db_objs, db_next_id>>
    /\ flowUnchangedRestore
    /\ UNCHANGED <<backupVars, insertVars, laterVars>>

\* restore_collection (lines 148-180): the configuration check, the listing
\* of the runs, and the call of WeaviateRestore.restore_collection with the
\* newest run
fl_restore_collection ==
    /\ fl_pc = "restore"
    /\ \E list_ok \in BOOLEAN :
         LET backup_runs == list_backup_runs(list_ok, rs_store)
             started == fl_conn_configured /\ Truthy(backup_runs)
             r == after_step(FALSE, "restoring")
         IN  /\ ~fl_conn_configured => list_ok
             /\ IF started
                THEN /\ rs_pc' = "start"
                     /\ rs_run_arg' = backup_runs[1]
                     /\ fl_pc' = "restoring"
                     /\ UNCHANGED <<fl_exit, fl_steps>>
                ELSE /\ fl_steps' = Append(fl_steps, [step |-> "restore", ok |-> FALSE])
                     /\ fl_pc' = r.pc
                     /\ fl_exit' = r.exit
                     /\ UNCHANGED <<rs_pc, rs_run_arg>>
    /\ UNCHANGED <<fl_answer1, fl_answer2, fl_requests, fl_conn_configured, fl_db0>>
    /\ UNCHANGED <<rs_variant, db_exists, db_objs, db_next_id>>
    /\ flowUnchangedRestore
    /\ UNCHANGED <<backupVars, insertVars, laterVars>>

\* restore_collection lines 180-182 and main lines 301-304: the restore
\* returned, however it ended, and the step counts as done
fl_restore_returned ==
    /\ fl_pc = "restoring" /\ rs_pc \in {"returned", "complete"}
    /\ LET r == after_step(TRUE, "verify")
       IN  /\ fl_steps' = Append(fl_steps, [step |-> "restore", ok |-> TRUE])
           /\ fl_pc' = r.pc
           /\ fl_exit' = r.exit
    /\ UNCHANGED <<fl_answer1, fl_answer2, fl_requests, fl_conn_configured, fl_db0>>
    /\ UNCHANGED <<backupVars, insertVars, restoreVars, laterVars>>

\* verify_restore (lines 185-260) and main lines 310-324: any count the
\* aggregate query reports passes
fl_verify_restore ==
    /\ fl_pc = "verify"
    /\ \E count_ok \in BOOLEAN :
         LET ok == count_ok /\ db_exists
             r == after_step(ok, "done")
         IN  /\ fl_requests' = fl_requests \o <<"COUNT">>
                                \o (IF ok /\ db_objs # {} THEN <<"GET_SAMPLE">> ELSE <<>>)
             /\ fl_steps' = Append(fl_steps, [step |-> "verify", ok |-> ok])
             /\ fl_pc' = r.pc
             /\ fl_exit' = r.exit
    /\ UNCHANGED <<fl_answer1, fl_answer2, fl_conn_configured, fl_db0>>
    /\ UNCHANGED <<backupVars, insertVars, restoreVars, laterVars>>

(***************************************************************************)
(* The workflow starts with the collection holding the K objects of the    *)
(* newest backup run (when it exists), or not existing.                    *)
(***************************************************************************)
FlowKinds == {"gzip", "plain"}

FlowStores ==
    {StoreOf(old, kinds) :
        old \in BOOLEAN, kinds \in UNION {[1..nf -> FlowKinds] : nf \in 0..MaxFiles}}

RestorableRecords(store) ==
    LET runs == list_backup_runs(TRUE, store)
    IN  IF ~Truthy(runs) THEN {Record(1)}
        ELSE UNION {SeqToSet(store[name].records) :
                       name \in {nm \in DOMAIN store : nm.run = runs[1]}}

AsStored(rec) ==
    [id |-> rec[ADDITIONAL].id, properties |-> pop_additional(rec),
     vector |-> rec[ADDITIONAL].vector]

FlowInit ==
    /\ fl_pc = "start"
    /\ fl_answer1 = <<>>
    /\ fl_answer2 = <<>>
    /\ fl_exit = -1
    /\ fl_requests = <<>>
    /\ fl_steps = <<>>
    /\ fl_conn_configured \in BOOLEAN
    /\ rs_store \in FlowStores
    /\ db_exists \in BOOLEAN
    /\ db_objs = IF db_exists THEN {AsStored(rec) : rec \in RestorableRecords(rs_store)}
                 ELSE {}
    /\ fl_db0 = [exists |-> db_exists, objs |-> db_objs]
    /\ db_next_id = FirstNewId
    /\ rs_variant = "runaware"
    /\ rs_run_arg = None
    /\ rs_pc = "idle"
    /\ backup_run_id = None
    /\ backup_files = <<>>
    /\ rs_i = 1
    /\ total_restored = 0
    /\ rs_downloads = <<>>
    /\ rs_skipped = <<>>
    /\ rs_calls = <<>>
    /\ BackupIdle
    /\ InsertIdle
    /\ LaterIdle

FlowNext ==
    \/ fl_prompt
    \/ fl_delete_collection
    \/ fl_recreate_schema
    \/ fl_restore_collection
    \/ rs_start
    \/ rs_list_files
    \/ rs_process_file
    \/ rs_finish
    \/ fl_restore_returned
    \/ fl_verify_restore

SpecFlow == FlowInit /\ [][FlowNext]_vars

(***************************************************************************)
(* Claims about the validation workflow                                    *)
(***************************************************************************)
StepNames == <<"delete", "recreate", "restore", "verify">>

BatchInsertsSent == {k \in DOMAIN rs_calls : rs_calls[k].sent}

StoredContent(objs) == {[properties |-> o.properties, vector |-> o.vector] : o \in objs}

C9_DeleteOnlyOnExactAnswers ==
    (\/ \E k \in DOMAIN fl_requests : fl_requests[k] \in {"DELETE", "POST_SCHEMA"}
     \/ BatchInsertsSent # {}
     \/ [exists |-> db_exists, objs |-> db_objs] # fl_db0)
    => (fl_answer1 = YES /\ fl_answer2 = COLLECTION_NAME)

\* C9 amended: a DELETE, a schema POST, a batch insert or a change of the
\* collection happens only when the first answer, trimmed of surrounding
\* whitespace and lower-cased, was yes and the second answer, trimmed of
\* surrounding whitespace, was the collection name.
C9_DeleteOnlyOnAcceptedAnswers ==
    (\/ \E k \in DOMAIN fl_requests : fl_requests[k] \in {"DELETE", "POST_SCHEMA"}
     \/ BatchInsertsSent # {}
     \/ [exists |-> db_exists, objs |-> db_objs] # fl_db0)
    => (lower(strip(fl_answer1)) = YES /\ strip(fl_answer2) = COLLECTION_NAME)

C9_Witness ==
    /\ \E k \in DOMAIN fl_requests : fl_requests[k] = "DELETE"
    /\ fl_answer1 = <<"Y", "E", "S">>
    /\ fl_answer2 = COLLECTION_NAME \o <<" ">>
    /\ ~db_exists

C10_StepOrder ==
    /\ Len(fl_steps) <= Len(StepNames)
    /\ \A k \in DOMAIN fl_steps : fl_steps[k].step = StepNames[k]
    /\ \A k \in DOMAIN fl_steps :
         ~fl_steps[k].ok => (k = Len(fl_steps) /\ fl_pc = "done" /\ fl_exit = 1)
    /\ fl_exit = 1 => (fl_steps # <<>> /\ ~fl_steps[Len(fl_steps)].ok)

C10_NoRollback ==
    /\ (fl_exit' = 1 /\ fl_exit # 1) => UNCHANGED <<db_exists, db_objs>>
    /\ fl_pc = "done" => UNCHANGED <<db_exists, db_objs, fl_steps, fl_requests, rs_calls>>

\* C10: the steps run in the order delete, recreate, restore, verify; a
\* failed step is the last step executed and ends the process with status
\* 1; the transition that ends the process, and everything after it, leaves
\* the database as the executed steps left it.
C10_AbortAtFirstFailure == []C10_StepOrder /\ [][C10_NoRollback]_vars

C10_Witness ==
    /\ fl_pc = "done"
    /\ fl_exit = 1
    /\ Len(fl_steps) = 2
    /\ fl_steps[1].ok
    /\ ~fl_steps[2].ok
    /\ fl_db0.exists
    /\ ~db_exists

(***************************************************************************)
(* The facade services: parallel_search_api.py (POST /parallel-search,     *)
(* timing-instrumented, aiohttp) and                                       *)
(* performance_testing/parallel_testing/fastapi_server.py                  *)
(* (POST /parallel_query, official async client).                          *)
(***************************************************************************)
PLACEHOLDER_KEY == "your-weaviate-api-key"

ApiKeys == {"", PLACEHOLDER_KEY, "k3y"}

\* if KEY and KEY != "your-weaviate-api-key"
key_configured(key) == key # "" /\ key # PLACEHOLDER_KEY

\* headers = {"Content-Type": ...}; headers["Authorization"] = f"Bearer {KEY}"
bearer_headers(key) ==
    IF key_configured(key)
    THEN ("Content-Type" :> <<"application/json">>) @@ ("Authorization" :> <<"Bearer", key>>)
    ELSE ("Content-Type" :> <<"application/json">>)

\* what the database (or the network) does with one leg
LegOutcomes == {"success", "non200", "graphql_errors", "timeout", "exception"}

QueryCollections == <<"SongLyrics", "SongLyrics_400k", "SongLyrics_200k", "SongLyrics_50k">>

\* a leg that lets its failure escape instead of returning an entry
leg_raising(coll, outcome, time_ms) ==
    IF outcome = "success"
    THEN [exc |-> FALSE, status |-> "success", collection |-> coll,
          search_time_ms |-> time_ms, detail |-> "data", success |-> TRUE]
    ELSE [exc |-> TRUE, status |-> outcome, collection |-> coll,
          search_time_ms |-> time_ms, detail |-> "raised", success |-> FALSE]

\* parallel_search_api.py lines 54-105: always returns a dict
send_single_request(coll, outcome, time_ms) ==
    [exc |-> FALSE,
     status |-> IF outcome = "success" THEN "success" ELSE "error",
     collection |-> coll,
     search_time_ms |-> time_ms,
     detail |-> CASE outcome = "success" -> "data"
                  [] outcome = "graphql_errors" -> "errors"
                  [] outcome = "non200" -> "http_status"
                  [] OTHER -> "error",
     success |-> outcome = "success"]

\* fastapi_server.py lines 125-176: always returns a QueryResult; the client
\* raises on a non-200 answer
execute_single_query(coll, outcome, time_ms) ==
    [exc |-> FALSE,
     status |-> CASE outcome = "success" -> "200"
                  [] outcome = "graphql_errors" -> "400"
                  [] OTHER -> "0",
     collection |-> coll,
     search_time_ms |-> time_ms,
     detail |-> CASE outcome = "success" -> "None"
                  [] outcome = "graphql_errors" -> "GraphQL errors"
                  [] outcome = "timeout" -> "Timeout after 60s"
                  [] OTHER -> "str(e)",
     success |-> outcome = "success"]

\* ticks in one hundredth of a millisecond
Hundredth == 5

\* round(x, 2) on a value in ticks: the nearest hundredth (no value in whole
\* ticks lies half-way between two hundredths)
round2(x) ==
    LET q == x \div Hundredth
        r == x % Hundredth
    IN  IF 2 * r < Hundredth THEN Hundredth * q ELSE Hundredth * (q + 1)

RECURSIVE seq_sum(_)
seq_sum(t) == IF t = <<>> THEN 0 ELSE Head(t) + seq_sum(Tail(t))

RECURSIVE seq_max(_)
\* max([...], default=0)
seq_max(t) ==
    IF t = <<>> THEN 0
    ELSE LET m == seq_max(Tail(t)) IN IF Len(t) = 1 \/ Head(t) >= m THEN Head(t) ELSE m

completion_order(results, completed) ==
    [k \in DOMAIN completed |-> results[completed[k]]]

\* asyncio.gather returns the results in the order of the awaitables handed
\* to it, whatever order they completed in
task_order(results, completed) == results

\* asyncio.gather: with return_exceptions the exceptions are list entries,
\* without it the first exception is raised to the caller
gather(results, return_exceptions) ==
    IF ~return_exceptions /\ \E k \in DOMAIN results : results[k].exc
    THEN [raised |-> TRUE, results |-> <<>>]
    ELSE [raised |-> FALSE, results |-> results]

is_success(r) == ~r.exc /\ r.status = "success"

is_error(r) == ~r.exc /\ r.status = "error"

flag_success(r) == r.success

\* parallel_search_api.py lines 118-147
search_api_response(queries, results, total_api_time, pure_search_time) ==
    LET g == gather(results, TRUE)
        dicts == SelectSeq(g.results, LAMBDA r : ~r.exc)
    IN  [status |-> 200,
         total_collections |-> Len(queries),
         successful |-> Cardinality({k \in DOMAIN g.results : is_success(g.results[k])}),
         errors |-> Cardinality({k \in DOMAIN g.results : is_error(g.results[k])}),
         timing |-> [total_api_time_ms |-> round2(total_api_time),
                     pure_search_time_ms |-> round2(pure_search_time),
                     max_collection_time_ms |->
                         round2(seq_max([k \in DOMAIN dicts |-> dicts[k].search_time_ms])),
                     api_overhead_ms |-> round2(total_api_time - pure_search_time)],
         results |-> g.results]

\* fastapi_server.py lines 191-208
parallel_query_response(results, total_time) ==
    LET g == gather(results, FALSE)
    IN  IF g.raised THEN [status |-> 500]
        ELSE [status |-> 200,
              total_time_ms |-> total_time,
              successful |->
                  Cardinality({k \in DOMAIN g.results : flag_success(g.results[k])}),
              failed |->
                  Len(g.results)
                  - Cardinality({k \in DOMAIN g.results : flag_success(g.results[k])}),
              results |-> g.results]

\* weaviate.use_async_with_custom(..., auth_credentials=None, ...)
use_async_with_custom(id, auth_credentials) == [id |-> id, auth |-> auth_credentials]

\* aiohttp.ClientSession(): carries no credentials of its own
ClientSession(id) == [id |-> id, auth |-> ""]

\* the headers of a request the official client sends
client_headers(client) ==
    IF client.auth # ""
    THEN ("Content-Type" :> <<"application/json">>)
             @@ ("Authorization" :> <<"Bearer", client.auth>>)
    ELSE ("Content-Type" :> <<"application/json">>)

next_client_id == Cardinality({k \in DOMAIN fa_client_log : fa_client_log[k].ev = "open"}) + 1

opened(id, during) == [ev |-> "open", id |-> id, during |-> during]

closed(id, during) == [ev |-> "close", id |-> id, during |-> during]

NewLeg == [state |-> "created", outcome |-> "", start |-> 0, client |-> 0,
           headers |-> <<>>]

facadeOthersUnchanged ==
    UNCHANGED <<backupVars, insertVars, restoreVars, flowVars, harnessVars, setupVars>>

\* a step takes less than a tick or one tick; the legs of a request are
\* started back to back, after the time it takes to open the dispatch
Ticks == {0, 1}

StartTicks(i) == IF i = 1 THEN Ticks ELSE {0}

\* the clock moves on by dt before the step reads it
tick(dt) == fa_clock + dt <= MaxClock /\ fa_clock' = fa_clock + dt

\* fastapi_server.py startup_event (lines 70-113); parallel_search_api.py has
\* no startup handler
fa_startup ==
    /\ fa_pc = "down"
    /\ fa_pc' = "ready"
    /\ IF fa_service = "fastapi_server"
       THEN \* auth_config (lines 89-91) is not among the arguments of line 94
            /\ fa_client' = use_async_with_custom(next_client_id, "")
            /\ fa_client_log' = Append(fa_client_log, opened(next_client_id, "startup"))
       ELSE UNCHANGED <<fa_client, fa_client_log>>
    /\ UNCHANGED <<fa_service, fa_key, fa_clock, fa_handled, fa_queries, fa_api_start,
                   fa_search_start, fa_legs, fa_results, fa_response, fa_completed>>
    /\ facadeOthersUnchanged

\* the handler up to the creation of the tasks: parallel_search_api.py lines
\* 52 and 108-115, fastapi_server.py lines 191-194
fa_receive ==
    /\ fa_pc = "ready" /\ fa_handled < MaxRequests
    /\ \E n \in 0..MaxQueries, dt \in Ticks :
         /\ fa_queries' = SubSeq(QueryCollections, 1, n)
         /\ fa_legs' = [k \in 1..n |-> NewLeg]
         /\ fa_results' = [k \in 1..n |-> [exc |-> FALSE, status |-> "pending"]]
         /\ fa_api_start' = 0
         /\ fa_clock' = dt
         /\ fa_search_start' = dt
    /\ fa_pc' = "dispatch"
    /\ fa_response' = NoResponse
    /\ fa_completed' = <<>>
    /\ IF fa_service = "search_api"
       THEN /\ fa_client' = ClientSession(next_client_id)
            /\ fa_client_log' = Append(fa_client_log, opened(next_client_id, "request"))
       ELSE UNCHANGED <<fa_client, fa_client_log>>
    /\ UNCHANGED <<fa_service, fa_key, fa_handled>>
    /\ facadeOthersUnchanged

\* a leg runs up to its await: parallel_search_api.py lines 56-72,
\* fastapi_server.py lines 130-134; gather starts the legs in list order
fa_leg_start(i) ==
    /\ fa_pc = "dispatch"
    /\ fa_legs[i].state = "created"
    /\ \A k \in 1..(i - 1) : fa_legs[k].state # "created"
    /\ \E dt \in StartTicks(i) :
         /\ tick(dt)
         /\ fa_legs' = [fa_legs EXCEPT ![i] =
                [state |-> "sent", outcome |-> "", start |-> fa_clock',
                 client |-> fa_client.id,
                 headers |-> IF fa_service = "search_api"
                             THEN bearer_headers(fa_key)
                             ELSE client_headers(fa_client)]]
    /\ UNCHANGED <<fa_service, fa_key, fa_pc, fa_client, fa_client_log, fa_handled,
                   fa_queries, fa_api_start, fa_search_start, fa_results, fa_response,
                   fa_completed>>
    /\ facadeOthersUnchanged

\* a leg is answered and returns: parallel_search_api.py lines 73-105,
\* fastapi_server.py lines 136-176
fa_leg_end(i) ==
    /\ fa_pc = "dispatch"
    /\ fa_legs[i].state = "sent"
    /\ \A k \in DOMAIN fa_legs : fa_legs[k].state # "created"
    /\ \E outcome \in LegOutcomes, dt \in Ticks :
         /\ tick(dt)
         /\ fa_legs' = [fa_legs EXCEPT ![i].state = "done", ![i].outcome = outcome]
         /\ fa_results' = [fa_results EXCEPT ![i] =
                IF fa_service = "search_api"
                THEN send_single_request(fa_queries[i], outcome, fa_clock' - fa_legs[i].start)
                ELSE execute_single_query(fa_queries[i], outcome,
                                          fa_clock' - fa_legs[i].start)]
         /\ fa_completed' = Append(fa_completed, i)
    /\ UNCHANGED <<fa_service, fa_key, fa_pc, fa_client, fa_client_log, fa_handled,
                   fa_queries, fa_api_start, fa_search_start, fa_response>>
    /\ facadeOthersUnchanged

\* gather returns and the handler answers: parallel_search_api.py lines
\* 118-147 (the session is closed on leaving line 111's block),
\* fastapi_server.py lines 195-208
fa_respond ==
    /\ fa_pc = "dispatch"
    /\ \A k \in DOMAIN fa_legs : fa_legs[k].state = "done"
    /\ \E dt1 \in Ticks, dt2 \in Ticks :
         /\ fa_clock + dt1 + dt2 <= MaxClock
         /\ fa_clock' = fa_clock + dt1 + dt2
         /\ fa_response' =
              IF fa_service = "search_api"
              THEN search_api_response(fa_queries, task_order(fa_results, fa_completed),
                                       fa_clock' - fa_api_start,
                                       fa_clock + dt1 - fa_search_start)
              ELSE parallel_query_response(task_order(fa_results, fa_completed),
                                           fa_clock + dt1 - fa_api_start)
    /\ fa_pc' = "ready"
    /\ fa_handled' = fa_handled + 1
    /\ IF fa_service = "search_api"
       THEN /\ fa_client' = NoClient
            /\ fa_client_log' = Append(fa_client_log, closed(fa_client.id, "request"))
       ELSE UNCHANGED <<fa_client, fa_client_log>>
    /\ UNCHANGED <<fa_service, fa_key, fa_queries, fa_api_start, fa_search_start,
                   fa_legs, fa_results, fa_completed>>
    /\ facadeOthersUnchanged

\* fastapi_server.py shutdown_event (lines 116-122)
fa_shutdown ==
    /\ fa_pc = "ready"
    /\ fa_pc' = "stopped"
    /\ IF fa_service = "fastapi_server" /\ fa_client # NoClient
       THEN /\ fa_client' = NoClient
            /\ fa_client_log' = Append(fa_client_log, closed(fa_client.id, "shutdown"))
       ELSE UNCHANGED <<fa_client, fa_client_log>>
    /\ UNCHANGED <<fa_service, fa_key, fa_clock, fa_handled, fa_queries, fa_api_start,
                   fa_search_start, fa_legs, fa_results, fa_response, fa_completed>>
    /\ facadeOthersUnchanged

FacadeInit ==
    /\ fa_service \in {"search_api", "fastapi_server"}
    /\ fa_key \in ApiKeys
    /\ fa_pc = "down"
    /\ fa_clock = 0
    /\ fa_client = NoClient
    /\ fa_client_log = <<>>
    /\ fa_handled = 0
    /\ fa_queries = <<>>
    /\ fa_api_start = 0
    /\ fa_search_start = 0
    /\ fa_legs = <<>>
    /\ fa_results = <<>>
    /\ fa_response = NoResponse
    /\ fa_completed = <<>>
    /\ BackupIdle
    /\ InsertIdle
    /\ RestoreIdle
    /\ FlowIdle
    /\ HarnessIdle
    /\ SetupIdle

FacadeNext ==
    \/ fa_startup
    \/ fa_receive
    \/ \E i \in 1..MaxQueries : i \in DOMAIN fa_legs /\ fa_leg_start(i)
    \/ \E i \in 1..MaxQueries : i \in DOMAIN fa_legs /\ fa_leg_end(i)
    \/ fa_respond
    \/ fa_shutdown

SpecFacade == FacadeInit /\ [][FacadeNext]_vars

(***************************************************************************)
(* Claims about the facade services                                        *)
(***************************************************************************)
Responded == fa_response # NoResponse

FailedLegs == {k \in DOMAIN fa_legs : fa_legs[k].outcome # "success"}

\* C11: a response of POST /parallel-search to N query entries has exactly N
\* results, and successful + errors = N = total_collections, whatever the
\* outcomes of the legs were.
C11_ResultAccounting ==
    (fa_service = "search_api" /\ Responded)
    => /\ fa_response.status = 200
       /\ Len(fa_response.results) = Len(fa_queries)
       /\ fa_response.total_collections = Len(fa_queries)
       /\ fa_response.successful + fa_response.errors = Len(fa_queries)

C11_Witness ==
    /\ fa_service = "search_api" /\ Responded
    /\ Len(fa_queries) = MaxQueries
    /\ fa_legs[1].outcome = "timeout"
    /\ fa_legs[2].outcome = "success"
    /\ fa_response.successful = 1
    /\ fa_response.errors = MaxQueries - 1

\* C12: in both services a failed leg is recorded as a failed entry of its
\* collection and the call still answers; what is recorded for a leg
\* depends on that leg's outcome alone; there is no response while a leg is
\* unfinished.
C12_FailedLegIsolated ==
    /\ Responded =>
         /\ fa_response.status = 200
         /\ \A k \in DOMAIN fa_legs :
              /\ fa_legs[k].state = "done"
              /\ ~fa_response.results[k].exc
              /\ fa_response.results[k].collection = fa_queries[k]
              /\ fa_response.results[k].success = (fa_legs[k].outcome = "success")
    /\ (\E k \in DOMAIN fa_legs : fa_legs[k].state # "done") => ~Responded

C12_Witness ==
    /\ fa_service = "fastapi_server" /\ Responded
    /\ Len(fa_queries) = MaxQueries
    /\ fa_legs[1].outcome = "exception"
    /\ fa_legs[2].outcome = "success"
    /\ fa_response.results[2].success
    /\ ~fa_response.results[1].success

Abs(x) == IF x < 0 THEN -x ELSE x

TimingOrder ==
    /\ fa_response.timing.pure_search_time_ms <= fa_response.timing.total_api_time_ms
    /\ fa_response.timing.max_collection_time_ms <= fa_response.timing.pure_search_time_ms

\* C13 as stated: on the reported values pure <= total, max <= pure and
\* overhead = total - pure.
C13_TimingExactOnRounded ==
    (fa_service = "search_api" /\ Responded)
    => /\ TimingOrder
       /\ fa_response.timing.api_overhead_ms =
            fa_response.timing.total_api_time_ms - fa_response.timing.pure_search_time_ms

\* C13 amended: on the reported values pure <= total, max <= pure, and
\* overhead differs from total - pure by at most one hundredth of a
\* millisecond.
C13_TimingWithinRounding ==
    (fa_service = "search_api" /\ Responded)
    => /\ TimingOrder
       /\ Abs(fa_response.timing.api_overhead_ms
              - (fa_response.timing.total_api_time_ms
                 - fa_response.timing.pure_search_time_ms)) <= Hundredth

C13_Witness ==
    /\ fa_service = "search_api" /\ Responded
    /\ Len(fa_queries) = MaxQueries
    /\ fa_response.timing.total_api_time_ms = Hundredth
    /\ fa_response.timing.pure_search_time_ms = 0
    /\ fa_response.timing.api_overhead_ms = 0

(***************************************************************************)
(* The load-test harnesses: how each locustfile classifies the answer to   *)
(* a request, or to the legs of a fan-out of 9 requests.                   *)
(***************************************************************************)
FanOut == 9

\* an answer of the database: its HTTP status (0: no answer, the request
\* raised or timed out) and whether the body carries a GraphQL errors list
HttpAnswers ==
    {[status |-> 200, errors |-> FALSE], [status |-> 200, errors |-> TRUE],
     [status |-> 404, errors |-> FALSE], [status |-> 500, errors |-> FALSE],
     [status |-> 0, errors |-> FALSE]}

Ok200 == [status |-> 200, errors |-> FALSE]

\* one request, classified with catch_response
DirectHarnesses ==
    {"locustfile.py", "locustfile_hybrid_01.py", "locustfile_tax_bm25.py",
     "single_collection/locustfile_bm25.py"}

\* one request, left to Locust's own verdict
DefaultHarnesses == {"locustfile_tax_hybrid_01.py"}

\* nine requests sent by the harness itself
FanOutHarnesses ==
    {"locustfile_parallel_working.py", "locustfile_parallel.py",
     "locustfile_parallel_simple.py", "parallel_testing/locustfile_hybrid_01.py"}

\* one request to a facade service, which sends the nine
FacadeHarnesses ==
    {"locustfile_api.py", "parallel_testing/locustfile_bm25.py",
     "parallel_testing/locustfile_hybrid_09.py", "parallel_testing/locustfile_vector.py"}

Harnesses == DirectHarnesses \cup DefaultHarnesses \cup FanOutHarnesses \cup FacadeHarnesses

legs_of(harness) ==
    IF harness \in DirectHarnesses \cup DefaultHarnesses THEN 1 ELSE FanOut

\* Locust without catch_response: a failure iff the request raised or
\* raise_for_status() does
locust_default(answer) == answer.status # 0 /\ answer.status < 400

\* if response.status_code == 200: if "errors" in result: failure
checked_graphql(answer) == answer.status = 200 /\ ~answer.errors

\* locustfile_parallel_working.py line 89: r and r.status_code == 200
status_only(answer) == answer.status # 0 /\ answer.status = 200

\* what a facade leg sees of an answer
leg_outcome(answer) ==
    CASE answer.status = 0 -> "exception"
      [] answer.status # 200 -> "non200"
      [] answer.errors -> "graphql_errors"
      [] OTHER -> "success"

\* whether the harness, or the facade it calls, counts the leg as a success
leg_ok(harness, answer) ==
    CASE harness = "locustfile_parallel_working.py" -> status_only(answer)
      [] harness \in DefaultHarnesses -> locust_default(answer)
      [] harness = "locustfile_api.py" ->
             is_success(send_single_request("", leg_outcome(answer), 0))
      [] harness \in FacadeHarnesses ->
             flag_success(execute_single_query("", leg_outcome(answer), 0))
      [] OTHER -> checked_graphql(answer)

\* what Locust records for the leg itself: the legs of
\* parallel_testing/locustfile_hybrid_01.py go through self.client.post
\* without catch_response (lines 76-82); the other harnesses send their legs
\* outside Locust's client or send one request only
leg_report(harness, answer) ==
    IF harness = "parallel_testing/locustfile_hybrid_01.py"
    THEN IF locust_default(answer) THEN "success" ELSE "failure"
    ELSE "none"

\* the verdict on the request: success()/failure(), or the exception
\* argument of events.request.fire
request_report(harness, facade_status, oks) ==
    LET successes == Cardinality({k \in DOMAIN oks : oks[k]})
    IN  IF harness \in FacadeHarnesses /\ facade_status # 200 THEN "failure"
        ELSE IF successes = legs_of(harness) THEN "success" ELSE "failure"

\* the join of the fan-out: asyncio.gather, grequests.map and
\* future.result() return when every leg has; gevent.joinall(greenlets,
\* timeout=30) returns after 30 s with the slower legs still running
join_times_out(harness) == harness = "parallel_testing/locustfile_hybrid_01.py"

NoCount == -1

\* the exception handed to events.request.fire: none on 9 of 9;
\* "Only k/9 collections succeeded" or "k/9 succeeded" otherwise, but
\* "All 9 collections failed" when parallel_testing/locustfile_hybrid_01.py
\* counted no success
exception_message(harness, successes) ==
    IF successes = legs_of(harness) THEN [text |-> "none", count |-> NoCount]
    ELSE IF join_times_out(harness) /\ successes = 0
    THEN [text |-> "All 9 collections failed", count |-> NoCount]
    ELSE [text |-> "k/9 succeeded", count |-> successes]

harnessOthersUnchanged ==
    UNCHANGED <<backupVars, insertVars, restoreVars, flowVars, facadeVars, setupVars>>

\* the request, or the nine legs, are sent and answered
hs_request ==
    /\ hs_pc = "start"
    /\ \E varied \in [1..Min(legs_of(hs_harness), MaxLegs) -> HttpAnswers],
          status \in IF hs_harness \in FacadeHarnesses THEN {200, 500} ELSE {200},
          late \in SUBSET (1..Min(legs_of(hs_harness), MaxLegs)) :
         /\ late # {} => join_times_out(hs_harness)
         /\ hs_answers' = [k \in 1..legs_of(hs_harness) |->
                              IF k \in DOMAIN varied THEN varied[k] ELSE Ok200]
         /\ hs_facade_status' = status
         /\ hs_finished' = [k \in 1..legs_of(hs_harness) |-> k \notin late]
    /\ hs_pc' = "answered"
    /\ UNCHANGED <<hs_harness, hs_leg_ok, hs_leg_reports, hs_report, hs_events>>
    /\ harnessOthersUnchanged

\* each answer is classified
hs_classify ==
    /\ hs_pc = "answered"
    /\ hs_leg_ok' = [k \in DOMAIN hs_answers |->
                         hs_finished[k] /\ leg_ok(hs_harness, hs_answers[k])]
    /\ hs_leg_reports' = [k \in DOMAIN hs_answers |->
                              IF hs_finished[k] THEN leg_report(hs_harness, hs_answers[k])
                              ELSE "none"]
    /\ hs_pc' = "classified"
    /\ UNCHANGED <<hs_harness, hs_answers, hs_facade_status, hs_report, hs_finished,
                   hs_events>>
    /\ harnessOthersUnchanged

\* the verdict is reported to Locust
hs_fire ==
    /\ hs_pc = "classified"
    /\ hs_report' = request_report(hs_harness, hs_facade_status, hs_leg_ok)
    /\ hs_events' = Append(hs_events,
           [verdict |-> request_report(hs_harness, hs_facade_status, hs_leg_ok),
            message |-> exception_message(hs_harness,
                            Cardinality({k \in DOMAIN hs_leg_ok : hs_leg_ok[k]})),
            pending |-> {k \in DOMAIN hs_finished : ~hs_finished[k]}])
    /\ hs_pc' = "reported"
    /\ UNCHANGED <<hs_harness, hs_answers, hs_facade_status, hs_leg_ok, hs_leg_reports,
                   hs_finished>>
    /\ harnessOthersUnchanged

\* a greenlet that joinall did not wait for returns after the event was
\* fired; Locust records its request then
hs_late_leg ==
    /\ hs_pc = "reported"
    /\ \E k \in DOMAIN hs_finished :
         /\ ~hs_finished[k]
         /\ hs_finished' = [hs_finished EXCEPT ![k] = TRUE]
         /\ hs_leg_reports' = [hs_leg_reports EXCEPT
                                  ![k] = leg_report(hs_harness, hs_answers[k])]
    /\ UNCHANGED <<hs_harness, hs_pc, hs_answers, hs_facade_status, hs_leg_ok, hs_report,
                   hs_events>>
    /\ harnessOthersUnchanged

HarnessInit ==
    /\ hs_harness \in Harnesses
    /\ hs_pc = "start"
    /\ hs_answers = <<>>
    /\ hs_facade_status = 0
    /\ hs_leg_ok = <<>>
    /\ hs_leg_reports = <<>>
    /\ hs_report = "none"
    /\ hs_finished = <<>>
    /\ hs_events = <<>>
    /\ BackupIdle
    /\ InsertIdle
    /\ RestoreIdle
    /\ FlowIdle
    /\ FacadeIdle
    /\ SetupIdle

HarnessNext == hs_request \/ hs_classify \/ hs_fire \/ hs_late_leg

SpecHarness == HarnessInit /\ [][HarnessNext]_vars

BadAnswer(answer) == answer.status # 200 \/ answer.errors

\* C14: in every harness a request or leg answered with a status other
\* than 200, or with 200 and a GraphQL errors list, is reported as a
\* failure: the request's verdict is failure, and so is whatever was
\* recorded for the leg itself.
C14_FailuresReportedAsFailures ==
    hs_pc = "reported"
    => \A k \in DOMAIN hs_answers :
         BadAnswer(hs_answers[k])
         => (hs_report = "failure" /\ hs_leg_reports[k] # "success")

\* C15: every request a facade service sends to the database carries
\* Authorization: Bearer <key> exactly when the configured key is
\* non-empty and is not the placeholder, and never carries the placeholder.
C15_BearerIffConfigured ==
    \A k \in DOMAIN fa_legs :
      fa_legs[k].state # "created"
      => /\ ("Authorization" \in DOMAIN fa_legs[k].headers)
              <=> (fa_key # "" /\ fa_key # "your-weaviate-api-key")
         /\ "Authorization" \in DOMAIN fa_legs[k].headers
              => fa_legs[k].headers["Authorization"] = <<"Bearer", fa_key>>

\* C16: when the blob connection string holds its placeholder, the
\* validation workflow sends no request to the database (no GET, DELETE or
\* POST) and no blob request, and once the operator has agreed to proceed
\* it ends with a non-zero status.
C16_PlaceholderStopsBeforeNetwork ==
    ~fl_conn_configured
    => /\ fl_requests = <<>>
       /\ rs_downloads = <<>>
       /\ (fl_pc = "done" /\ lower(strip(fl_answer1)) = YES) => fl_exit = 1

ClientsOpened == {k \in DOMAIN fa_client_log : fa_client_log[k].ev = "open"}

\* C17: a facade service opens one client, at startup and before it
\* handles a request, sends every leg of every request through it, opens or
\* closes no client while handling a request, and closes it at shutdown only.
C17_OneClientForLifetime ==
    /\ Cardinality(ClientsOpened) <= 1
    /\ \A k \in DOMAIN fa_client_log :
         /\ fa_client_log[k].ev = "open" => fa_client_log[k].during = "startup"
         /\ fa_client_log[k].ev = "close" => fa_client_log[k].during = "shutdown"
    /\ fa_pc \in {"ready", "dispatch"} => fa_client # NoClient
    /\ \A k \in DOMAIN fa_legs :
         fa_legs[k].state # "created"
         => (fa_legs[k].client # 0 /\ fa_legs[k].client = fa_client_log[1].id)

Sent(request) == \E k \in DOMAIN fl_requests : fl_requests[k] = request

\* the deletion prompt was shown (the collection was found and counted) and
\* the operator did not confirm, so no DELETE was sent
NamePromptDeclined ==
    /\ Len(fl_steps) = 1 /\ ~fl_steps[1].ok
    /\ Sent("COUNT") /\ ~Sent("DELETE")

\* C18: the validation workflow ends with status 0 when the operator
\* cancels at either prompt, and with status 1 only when a step failed for
\* another reason.
C18_CancelExitsZero ==
    fl_pc = "done"
    => /\ fl_steps = <<>> => fl_exit = 0
       /\ NamePromptDeclined => fl_exit = 0
       /\ fl_exit = 1 => (fl_steps # <<>> /\ ~fl_steps[Len(fl_steps)].ok)

(***************************************************************************)
(* Claims about the concurrency of the streaming backup                    *)
(***************************************************************************)
\* the process keeps running: the event loop and the executor threads take
\* the next step whenever there is one
SpecBackupFair == BackupInit /\ [][BackupNext]_vars /\ WF_vars(BackupNext)

FetchInProgress == tool = "stream" /\ pc = "fetching"

UploadInFlight == tool = "stream" /\ Running(task_state) # {}

\* fetches begun and not yet returned
FetchesInProgress == file_number - Len(fetch_log)

\* no upload is in flight at any moment of any fetch
StreamFetchExcludesUploads == FetchInProgress => ~UploadInFlight

\* C19: a run of the streaming backup over a non-empty collection comes to
\* a state where an upload is in flight while a fetch is in progress, and
\* never has two fetches in progress at once.
C19_UploadOverlapsFetch ==
    /\ [](tool = "stream" => FetchesInProgress \in {0, 1})
    /\ (tool = "stream" /\ collection > 0) => <>(FetchInProgress /\ UploadInFlight)

LastDrainBatch == GcEvery * ((file_number - 1) \div GcEvery)

\* when a fetch starts, no upload task of a batch up to the last multiple
\* of 10 is still waiting to be awaited
DrainedBeforeNextFetch ==
    FetchInProgress
    => \A i \in DOMAIN upload_tasks : upload_tasks[i].file > LastDrainBatch

PendingAtMostTen == tool = "stream" => Len(upload_tasks) <= GcEvery

RECURSIVE gathered(_)
gathered(log) == IF log = <<>> THEN 0 ELSE Head(log).total + gathered(Tail(log))

TasksCreated ==
    Cardinality({k \in DOMAIN fetch_log : Truthy(fetch_log[k].objs)}) - compress_errors

\* every upload task created was awaited by exactly one gather before
\* "Backup complete"
AllAwaitedOnce == (tool = "stream" /\ complete) => gathered(gather_log) = TasksCreated

\* C20: after every batch whose index is a multiple of 10 the upload tasks
\* dispatched so far are finished before the next fetch starts, at most 10
\* tasks are ever pending, and a run that ends normally has awaited every
\* task it created exactly once.
C20_DrainEveryTenth == DrainedBeforeNextFetch /\ PendingAtMostTen /\ AllAwaitedOnce

(***************************************************************************)
(* Upload failures of the streaming backup (checked under SpecBackupFair). *)
(***************************************************************************)
FailedUploads == {i \in DOMAIN task_state : task_state[i] = "False"}

UploadFails == \E i \in DOMAIN task_state :
                  /\ task_state[i] = "running"
                  /\ i \in DOMAIN task_state' /\ task_state'[i] = "False"

RECURSIVE shortfall(_)
shortfall(log) ==
    IF log = <<>> THEN 0
    ELSE (Head(log).total - Head(log).successful) + shortfall(Tail(log))

RECURSIVE reported_successful(_)
reported_successful(log) ==
    IF log = <<>> THEN 0 ELSE Head(log).successful + reported_successful(Tail(log))

Gathering == pc \in {"gather", "final"}

\* the failed upload changes nothing but the task's own result: the loop's
\* position, cursor, counters and task list stay as they are
FailureLeavesLoopAlone ==
    UploadFails => /\ pc' = pc
                   /\ UNCHANGED <<last_id, total_uploaded, file_number, upload_tasks,
                                  fetch_log, complete, blobs, gather_log>>

\* no upload is attempted a second time and the cursor never moves back
NoRetry ==
    /\ \A i \in DOMAIN task_state :
          task_state[i] \in {"True", "False"} =>
              \/ task_state' = <<>>
              \/ (i \in DOMAIN task_state' /\ task_state'[i] = task_state[i])
    /\ last_id' >= last_id
    /\ total_uploaded' >= total_uploaded
    /\ (pc = "gather" /\ pc' # "gather") => pc' = "top"

\* the success-ratio lines count exactly the uploads that wrote their blob
RatioLinesCountWrittenBlobs ==
    /\ (tool = "stream" /\ ~Gathering) =>
           reported_successful(gather_log) = Cardinality(blobs)
    /\ \A k \in DOMAIN gather_log : gather_log[k].successful <= gather_log[k].total

\* every failed upload lowers the count of its line by one and is named by
\* one "Upload error" line; its blob is never written
ErrorLinePerFailure ==
    /\ ~Gathering => shortfall(gather_log) = Cardinality(upload_errors)
    /\ \A f \in upload_errors : \A b \in blobs : b.file # f

\* C21, amended: a failed blob upload does not abort the streaming backup:
\* the loop's position, cursor and counters are untouched by it, the run
\* goes on to "Backup complete", the failed batch is not retried, and the
\* failure shows as one "Upload error" log line naming the blob and as a
\* count lower by one in the success-ratio log line.
C21_FailureInErrorAndRatioLines ==
    /\ [](RatioLinesCountWrittenBlobs /\ ErrorLinePerFailure)
    /\ [][FailureLeavesLoopAlone /\ NoRetry]_vars
    /\ ((FailedUploads # {}) ~> complete)

\* C21 as stated: a failed blob upload does not abort the streaming backup:
\* the cursor still advances, later batches are fetched and uploaded, the
\* failed batch is not retried, and the failure shows only as a lower count
\* in the success-ratio log line (no other line of the log tells of it).
C21_FailureOnlyInRatioLine ==
    /\ [](RatioLinesCountWrittenBlobs /\ upload_errors = {})
    /\ [][FailureLeavesLoopAlone /\ NoRetry]_vars
    /\ ((FailedUploads # {}) ~> complete)

C21_Witness ==
    /\ complete /\ gather_log # <<>>
    /\ gather_log[1].successful < gather_log[1].total
    /\ gather_log[1].successful > 0
    /\ Len(fetch_log) > gather_log[1].batch
    /\ upload_errors # {}

(***************************************************************************)
(* The object cap of the streaming backup (checked under SpecBackup).      *)
(***************************************************************************)
CapGiven == tool = "stream" /\ max_objects # None

BackedUp == UNION {SeqToSet(b.objs) : b \in blobs}

FetchAnswered == Len(fetch_log') = Len(fetch_log) + 1

CapNeverExceeded ==
    CapGiven => /\ total_uploaded <= max_objects
                /\ Cardinality(BackedUp) <= max_objects
                /\ \A i \in DOMAIN fetch_log :
                      /\ fetch_log[i].limit <= batch_size
                      /\ fetch_log[i].limit >= 1
                      /\ Len(fetch_log[i].objs) <= fetch_log[i].limit

FetchAsksForRemainder ==
    (CapGiven /\ FetchAnswered) =>
        /\ total_uploaded < max_objects
        /\ fetch_log'[Len(fetch_log')].limit
              = Min(batch_size, max_objects - total_uploaded)

StopsAtCap ==
    (CapGiven /\ total_uploaded >= max_objects) =>
        /\ UNCHANGED <<fetch_log, file_number, total_uploaded, last_id>>
        /\ pc = "top" => pc' \in {"final", "complete"}
        /\ pc' # "fetching"

\* C22: with an object cap, the streaming backup never backs up more than
\* max_objects objects, each fetch asks for
\* min(batch_size, max_objects - objects so far), and once the cap is
\* reached the loop is left without a further fetch.
C22_CapRespected ==
    []CapNeverExceeded /\ [][FetchAsksForRemainder /\ StopsAtCap]_vars

C22_Witness ==
    /\ complete /\ max_objects = 3 /\ batch_size = 2 /\ collection > 3
    /\ total_uploaded = 3 /\ Len(fetch_log) = 2
    /\ fetch_log[1].limit = 2 /\ fetch_log[2].limit = 1
    /\ Cardinality(BackedUp) = 3

(***************************************************************************)
(* The file loop of the restore tools (checked under SpecRestoreFair: a    *)
(* restore that has started is run to its end).                            *)
(***************************************************************************)
SpecRestoreFair == RestoreInit /\ [][RestoreNext]_vars /\ WF_vars(RestoreNext)

Settled == {rs_calls[c].file : c \in DOMAIN rs_calls}
               \cup {rs_skipped[k] : k \in DOMAIN rs_skipped}

InListingOrder ==
    /\ \A j \in 1..(Len(backup_files) - 1) :
          NameKey(backup_files[j]) < NameKey(backup_files[j + 1])
    /\ Len(rs_downloads) <= Len(backup_files)
    /\ \A k \in DOMAIN rs_downloads : rs_downloads[k].file = backup_files[k]

\* every file downloaded so far was either skipped or handed to one batch
\* insert, and nothing else was
OneAttemptPerFile ==
    /\ Len(rs_calls) + Len(rs_skipped) = Len(rs_downloads)
    /\ Settled = {rs_downloads[k].file : k \in DOMAIN rs_downloads}
    /\ \A c, e \in DOMAIN rs_calls :
          c < e => NameKey(rs_calls[c].file) < NameKey(rs_calls[e].file)
    /\ \A k \in DOMAIN rs_downloads :
          LET objects == IF rs_variant = "flat"
                         THEN flat_download_and_decompress(rs_downloads[k].ok,
                                                           rs_store[rs_downloads[k].file])
                         ELSE download_and_decompress(rs_downloads[k].ok,
                                                      rs_store[rs_downloads[k].file])
          IN  (\E s \in DOMAIN rs_skipped : rs_skipped[s] = rs_downloads[k].file)
                  <=> ~Truthy(objects)

\* a file is downloaded only when every file listed before it is settled
OneAtATime ==
    Len(rs_downloads') > Len(rs_downloads) =>
        /\ Len(rs_downloads') = Len(rs_downloads) + 1
        /\ \A j \in 1..Len(rs_downloads) : backup_files[j] \in Settled

\* a skipped file or a failed batch insert leaves the loop running
LoopGoesOn == (rs_pc = "loop" /\ rs_pc' # "loop") =>
                  (rs_pc' = "complete" /\ Len(rs_downloads) = Len(backup_files))

Uploaded(n) == \E b \in blobs : b.file = n

BatchDone == tool = "rest" /\ file_index' # file_index

LastFetch(log) == log[Len(log)]

\* of the batches gone through, exactly those whose upload failed still
\* have their local file
DeletedIffUploaded ==
    tool = "rest" =>
        /\ \A n \in 1..(file_index - 1) : n \in local_files <=> ~Uploaded(n)
        /\ \A n \in local_files : n <= file_index
        /\ \A b \in blobs : b.file < file_index

\* whatever the upload returned, the pass moves the cursor to the last
\* identifier of its batch and the file index to the next one
AdvancesEitherWay ==
    BatchDone =>
        /\ file_index' = file_index + 1
        /\ Truthy(LastFetch(fetch_log').objs)
        /\ cursor' = LastFetch(fetch_log').objs[Len(LastFetch(fetch_log').objs)]
        /\ total_objects' = total_objects + Len(LastFetch(fetch_log').objs)
        /\ (\E b \in blobs' : b.file = file_index) <=> file_index \notin local_files'

ExceptionKeepsPosition ==
    (tool = "rest" /\ batch_exceptions' # batch_exceptions) =>
        /\ UNCHANGED <<cursor, file_index, total_objects, complete>>
        /\ pc' = "top"

RefetchesWithCursor ==
    (tool = "rest" /\ Len(fetch_log') > Len(fetch_log)) =>
        LastFetch(fetch_log').after = cursor

EveryFetchFailed ==
    /\ tool = "rest" /\ fetch_log # <<>>
    /\ \A i \in DOMAIN fetch_log : ~fetch_log[i].ok

ExceptionPassRepeats == [][ExceptionKeepsPosition /\ RefetchesWithCursor]_vars

\* C25: in the REST fallback backup an exception while processing a batch
\* leaves the cursor, the file index and the object total unchanged and the
\* loop fetches again with the same cursor; while the endpoint's fetches
\* keep failing the loop does not end and "Backup complete" is never
\* reported.
C25_FailingEndpointNeverCompletes ==
    ExceptionPassRepeats /\ [](EveryFetchFailed => ~complete /\ pc = "top")

(***************************************************************************)
(* The fixture generators: generate_parallel_queries.py,                   *)
(* generate_single_collection_queries.py, generate_tax_queries.py,         *)
(* generate_vector_queries.py and generate_single_vector_queries.py, each  *)
(* run over the limit sweep.                                               *)
(***************************************************************************)
Generators == {"generate_parallel_queries", "generate_single_collection_queries",
               "generate_tax_queries", "generate_vector_queries",
               "generate_single_vector_queries"}

\* the vectors the provider may answer a request with
Vectors == {1, 2}

limits == [k \in 1..MaxLimits |-> CASE k = 1 -> 10 [] k = 2 -> 50 [] k = 3 -> 100
                                    [] k = 4 -> 150 [] OTHER -> 200]

\* get_embedding_for_query: the embedding of the answer, None on any
\* exception
get_embedding_for_query(ok, answer) == IF ok THEN answer ELSE None

\* generate_single_collection_queries.main builds query_embeddings itself
\* and hands it to generate_query_files; the other generators build it
\* inside the per-limit function
embeds_in_main(generator) == generator = "generate_single_collection_queries"

\* the files written for one limit
files_of(generator) ==
    CASE generator \in {"generate_vector_queries", "generate_single_vector_queries"} ->
             {"vector"}
      [] generator = "generate_tax_queries" ->
             {"bm25", "hybrid_01", "hybrid_09", "vector", "mixed"}
      [] OTHER -> {"bm25", "hybrid_01", "hybrid_09", "mixed"}

\* the mixed file: 10 BM25, 10 hybrid 0.1, 10 hybrid 0.9 entries
search_type_of(file, i) ==
    IF file = "mixed"
    THEN IF i <= 10 THEN "bm25" ELSE IF i <= 20 THEN "hybrid_01" ELSE "hybrid_09"
    ELSE file

\* one entry of a fixture file; a BM25 query carries no vector
fixture(file, limit, embeddings, i) ==
    [file |-> file, limit |-> limit, phrase |-> i,
     search_type |-> search_type_of(file, i),
     vector |-> IF search_type_of(file, i) = "bm25" THEN None ELSE embeddings[i]]

fixtures(generator, limit, embeddings) ==
    {fixture(file, limit, embeddings, i) : file \in files_of(generator), i \in SEARCH_QUERIES}

NoEmbeddings == [q \in SEARCH_QUERIES |-> None]

genOthersUnchanged ==
    UNCHANGED <<backupVars, insertVars, restoreVars, flowVars, facadeVars, harnessVars,
                clientVars>>

\* one pass of the embedding loop: the request for one phrase; a failure
\* ends the run with status 1
gn_get_embedding ==
    /\ gn_pc = "embed"
    /\ \E ok \in BOOLEAN, answer \in Vectors :
         LET emb == get_embedding_for_query(ok, answer)
         IN  /\ ~ok => answer = 1
             /\ gn_requests' = Append(gn_requests, gn_phrase)
             /\ IF emb = None
                THEN /\ gn_pc' = "exit" /\ gn_exit' = 1
                     /\ UNCHANGED <<query_embeddings, gn_phrase>>
                ELSE /\ query_embeddings' = [query_embeddings EXCEPT ![gn_phrase] = emb]
                     /\ gn_phrase' = gn_phrase + 1
                     /\ gn_pc' = IF gn_phrase = MaxPhrases THEN "write" ELSE "embed"
                     /\ UNCHANGED gn_exit
    /\ UNCHANGED <<gn_generator, gn_limit, gn_files>>
    /\ genOthersUnchanged

\* the files of one limit are written; then main's loop goes to the next
\* limit, which in every generator but generate_single_collection_queries
\* starts with an empty query_embeddings
gn_write_files ==
    /\ gn_pc = "write"
    /\ gn_files' = gn_files \cup fixtures(gn_generator, limits[gn_limit], query_embeddings)
    /\ IF gn_limit = MaxLimits
       THEN /\ gn_pc' = "exit" /\ gn_exit' = 0
            /\ UNCHANGED <<gn_limit, gn_phrase, query_embeddings>>
       ELSE /\ gn_limit' = gn_limit + 1
            /\ UNCHANGED gn_exit
            /\ IF embeds_in_main(gn_generator)
               THEN gn_pc' = "write" /\ UNCHANGED <<gn_phrase, query_embeddings>>
               ELSE /\ gn_pc' = "embed" /\ gn_phrase' = 1
                    /\ query_embeddings' = NoEmbeddings
    /\ UNCHANGED <<gn_generator, gn_requests>>
    /\ genOthersUnchanged

GenInit ==
    /\ gn_generator \in Generators
    /\ gn_pc = "embed"
    /\ gn_limit = 1
    /\ gn_phrase = 1
    /\ gn_requests = <<>>
    /\ query_embeddings = NoEmbeddings
    /\ gn_files = {}
    /\ gn_exit = -1
    /\ BackupIdle
    /\ InsertIdle
    /\ RestoreIdle
    /\ FlowIdle
    /\ FacadeIdle
    /\ HarnessIdle
    /\ ClientIdle

GenNext == gn_get_embedding \/ gn_write_files

SpecGen == GenInit /\ [][GenNext]_vars

RequestsFor(q) == {k \in DOMAIN gn_requests : gn_requests[k] = q}

\* C26: in one run of a fixture generator over the limit sweep, the
\* embedding of each phrase is requested from the provider exactly once,
\* and that one vector is in every fixture derived from the phrase, for
\* every search type and every limit.
C26_EmbeddingRequestedOnce ==
    /\ \A q \in SEARCH_QUERIES : Cardinality(RequestsFor(q)) <= 1
    /\ gn_exit = 0 => \A q \in SEARCH_QUERIES : Cardinality(RequestsFor(q)) = 1
    /\ \A f, g \in gn_files :
          (f.phrase = g.phrase /\ f.vector # None /\ g.vector # None) =>
              f.vector = g.vector

\* within the files of one limit the vector of a phrase is the same
SameVectorWithinLimit ==
    \A f, g \in gn_files :
        (f.phrase = g.phrase /\ f.limit = g.limit /\ f.vector # None /\ g.vector # None) =>
            f.vector = g.vector

(***************************************************************************)
(* The aggregate event of the client-side fan-out harnesses (checked under *)
(* SpecHarness).                                                           *)
(***************************************************************************)
LegsSucceeded == Cardinality({k \in DOMAIN hs_leg_ok : hs_leg_ok[k]})

\* C27: a client-side parallel harness fires exactly one aggregate event
\* per fan-out, and only when all 9 legs have finished: a success if and
\* only if all 9 legs succeeded, otherwise a failure whose message carries
\* the number of legs that succeeded.
C27_OneEventAfterAllLegs ==
    (hs_harness \in FanOutHarnesses /\ hs_pc = "reported") =>
        /\ Len(hs_events) = 1
        /\ hs_events[1].pending = {}
        /\ hs_events[1].verdict = "success" <=> LegsSucceeded = FanOut
        /\ hs_events[1].verdict = "failure" =>
               hs_events[1].message.count = LegsSucceeded

\* the parts of C27 that hold in every fan-out harness
OneEventWithTheCountedVerdict ==
    (hs_harness \in FanOutHarnesses /\ hs_pc = "reported") =>
        /\ Len(hs_events) = 1
        /\ hs_events[1].verdict = "success" <=> LegsSucceeded = FanOut
        /\ (hs_events[1].verdict = "failure" /\ LegsSucceeded > 0) =>
               hs_events[1].message.count = LegsSucceeded
        /\ ~join_times_out(hs_harness) => hs_events[1].pending = {}

(***************************************************************************)
(* create_weaviate_client (weaviate_client.py): the ports handed to the    *)
(* client for the configured URL.                                          *)
(***************************************************************************)
MaxPort == 65535

GRPC_PORT == 50051

\* the decimal digits of n, as the URL carries them
RECURSIVE digits(_)
digits(n) == IF n < 10 THEN <<n>> ELSE Append(digits(n \div 10), n % 10)

\* int(port_str)
RECURSIVE int(_)
int(port_str) ==
    IF port_str = <<>> THEN 0
    ELSE 10 * int(SubSeq(port_str, 1, Len(port_str) - 1)) + port_str[Len(port_str)]

\* lines 33-39: the port after the colon, or the scheme's default
url_port(url) ==
    IF Truthy(url.port_str) THEN int(url.port_str)
    ELSE IF url.https THEN 443 ELSE 80

next_port(port) == port + 1

\* line 68: port + 1 if port < 65535 else port - 1
dummy_grpc_port(port) == IF port < MaxPort THEN port + 1 ELSE port - 1

\* lines 49-76: 50051 when gRPC is enabled, the dummy port in HTTP-only mode
grpc_port_of(use_grpc, port) == IF use_grpc THEN GRPC_PORT ELSE dummy_grpc_port(port)

clientOthersUnchanged ==
    UNCHANGED <<backupVars, insertVars, restoreVars, flowVars, facadeVars, harnessVars,
                genVars>>

\* lines 27-80: the client is built and connected; connect() may raise
cl_create ==
    /\ cl_pc = "start"
    /\ \E connected \in BOOLEAN :
         /\ cl_http_port' = url_port(cl_url)
         /\ cl_grpc_port' = grpc_port_of(cl_use_grpc, url_port(cl_url))
         /\ cl_pc' = IF connected THEN "connected" ELSE "raised"
    /\ UNCHANGED <<cl_url, cl_use_grpc>>
    /\ clientOthersUnchanged

Urls == {[https |-> s, port_str |-> digits(n)] : s \in BOOLEAN, n \in 1..MaxPort}
            \cup {[https |-> s, port_str |-> <<>>] : s \in BOOLEAN}

ClientInit ==
    /\ cl_url \in Urls
    /\ cl_use_grpc \in BOOLEAN
    /\ cl_pc = "start"
    /\ cl_http_port = 0
    /\ cl_grpc_port = 0
    /\ BackupIdle
    /\ InsertIdle
    /\ RestoreIdle
    /\ FlowIdle
    /\ FacadeIdle
    /\ HarnessIdle
    /\ GenIdle

ClientNext == cl_create

SpecClient == ClientInit /\ [][ClientNext]_vars

Created == cl_pc \in {"connected", "raised"}

DerivedPort(port) == IF port + 1 > 65535 THEN port - 1 ELSE port + 1

ValidPorts == 1..65535

\* C28 as stated: with the gRPC toggle enabled the secondary port is
\* port+1, or port-1 if port+1 > 65535, port being the URL's HTTP port (80
\* or 443 by scheme when absent); for every HTTP port in 1..65535 it is
\* within 1..65535 and differs from the HTTP port.
C28_DerivedPortWhenGrpcEnabled ==
    (Created /\ cl_use_grpc) =>
        /\ cl_grpc_port = DerivedPort(cl_http_port)
        /\ cl_grpc_port \in ValidPorts
        /\ cl_grpc_port # cl_http_port

\* C28, amended: the derived port port+1 (port-1 if port+1 > 65535) is the
\* placeholder used when the gRPC toggle is disabled; for every HTTP port
\* in 1..65535 it is within 1..65535 and differs from the HTTP port.  With
\* the toggle enabled the secondary port is 50051 whatever the HTTP port.
C28_DerivedPortWhenGrpcDisabled ==
    Created =>
        /\ cl_http_port \in ValidPorts
        /\ Truthy(cl_url.port_str) => digits(cl_http_port) = cl_url.port_str
        /\ ~Truthy(cl_url.port_str) => cl_http_port = (IF cl_url.https THEN 443 ELSE 80)
        /\ ~cl_use_grpc => /\ cl_grpc_port = DerivedPort(cl_http_port)
                           /\ cl_grpc_port \in ValidPorts
                           /\ cl_grpc_port # cl_http_port
        /\ cl_use_grpc => cl_grpc_port = 50051

C28_Witness ==
    /\ cl_pc = "connected" /\ ~cl_use_grpc
    /\ cl_url.port_str = <<6, 5, 5, 3, 5>>
    /\ cl_http_port = 65535 /\ cl_grpc_port = 65534

(***************************************************************************)
(* What the validation workflow deletes (checked under SpecFlow).          *)
(***************************************************************************)
BackupAvailable ==
    fl_conn_configured /\ Truthy(list_backup_runs(TRUE, rs_store))

CollectionDeleted ==
    \E k \in DOMAIN fl_steps : fl_steps[k].step = "delete" /\ fl_steps[k].ok

\* C29: the validation workflow sends the DELETE of SongLyrics_10k only
\* when a backup run of the collection exists in blob storage and the
\* connection string is configured; it never ends with the collection's
\* data deleted and nothing to restore it from.
C29_DeleteOnlyWithBackup ==
    /\ Sent("DELETE") => BackupAvailable
    /\ (fl_pc = "done" /\ CollectionDeleted) => BackupAvailable


\* ---------------------------------------------------------------------------
\* C30: in both facade services the i-th entry of `results` is the outcome of
\* the i-th entry of the request's `queries` and carries that entry's
\* collection name, whatever order the concurrent legs completed in

\* the handler has answered the current request with a body
Answered == fa_response # NoResponse /\ fa_response.status = 200

\* the legs of the current request returned in another order than the order of
\* the request's queries
CompletedOutOfOrder ==
    \E j, k \in DOMAIN fa_completed : j < k /\ fa_completed[j] > fa_completed[k]

\* C30: every answered request has one entry of `results` per entry of
\* `queries`; the i-th entry names the collection of the i-th query, is the
\* value the i-th leg returned and tells the outcome of the i-th leg; this
\* holds whatever order the legs completed in
C30_ResultsInQueryOrder ==
    Answered =>
        /\ Len(fa_response.results) = Len(fa_queries)
        /\ \A i \in DOMAIN fa_queries :
             /\ fa_response.results[i].collection = fa_queries[i]
             /\ fa_response.results[i] = fa_results[i]
             /\ fa_response.results[i].success = (fa_legs[i].outcome = "success")

\* a request of two queries whose second leg returned first and whose legs
\* ended differently has been answered
C30_Witness ==
    /\ Answered
    /\ Len(fa_queries) >= 2
    /\ CompletedOutOfOrder
    /\ fa_completed[1] = 2
    /\ fa_legs[1].outcome # fa_legs[2].outcome
    /\ fa_response.results[2].success
    /\ ~fa_response.results[1].success

=============================================================================
